---- MODULE Spec2Model ----
(***************************************************************************)
(* rparse: BNF-like grammar -> flat bytecode (compiler.rs) -> thread-per-  *)
(* alternative parser VM with a shared return stack and a refcounted       *)
(* fragment arena (vm.rs) -> start/term/end event stream (ParsedTrees).    *)
(*                                                                         *)
(* Indices (string indices, opcode addresses, fragment indices, stack      *)
(* pointers, token indices) are 0-based as in the Rust code; a Vec is a    *)
(* TLA+ sequence read through Nth.  Option<T> is <<>> (None) or <<x>>.     *)
(***************************************************************************)
EXTENDS Integers, Sequences, FiniteSets, TLC

VARIABLES
    G,            \* the loaded Grammar (grammar.rs)
    tokens,       \* the caller's token sequence, closed over by match_fn
    nt_start,     \* run's nt_start argument
    min_match,    \* run's min_match argument
    debug_level,  \* run: the level read from the environment variable PARSERDEBUG
    tidx_arg,     \* the tidx argument of the caller's execute
    cg,           \* the CompiledGrammar
    todo,         \* compile_grammar: the <<nonterminal, production>> pairs still to emit
    pc,           \* position in compile_grammar / run / execute
    fragments,    \* run: Vec<ParseFragment>
    tails,        \* run: Vec<(usize, usize)>
    runnable,     \* run: Vec<VMThread>
    matchable,    \* run: Vec<(usize, VMThread)>
    freelist,     \* run: Vec<usize>
    shared_stack, \* run: SharedStack<usize>
    matched,      \* run: Vec<isize>, the per-token decision cache
    prev_validx,  \* run: local of the match phase
    tokidx,       \* run: current token index
    oracle_calls, \* log of the match_fn invocations, <<validx, tokidx>> each
    parked,       \* log of the <<validx, tokidx>> at which a thread was parked
    events,       \* what execute handed to the StreamingHandler
    prior,        \* the outcome of the previous run, for run-to-run comparison
    runs,         \* number of completed runs that were followed by another
    memory        \* the room the allocator of the process has for run's arena

vars == <<G, tokens, nt_start, min_match, debug_level, tidx_arg, cg, todo, pc,
          fragments, tails, runnable, matchable, freelist, shared_stack, matched, prev_validx, tokidx,
          oracle_calls, parked, events, prior, runs, memory>>

-----------------------------------------------------------------------------
(* Bounds of the model *)

\* longest token sequence handed to run
MaxTokens == 3
\* largest min_match handed to run
MaxMinMatch == 2
\* most fragments the allocator has room for, in the processes of limited memory
MaxArena == 32
\* most repetitions of 'a' in the inputs of the repository's recursive tests:
\* rec_grammar_test pushes 4, rec2_grammar_test 11
MaxRepeat == 11
\* largest tree index handed to execute
MaxTidx == 3
MaxPushes == 4
MaxValue == 1

-----------------------------------------------------------------------------
(* Basic vocabulary *)

None == <<>>
Some(x) == <<x>>
IsSome(o) == o # <<>>
Unwrap(o) == o[1]

\* usize::MAX, the "no stack" / "no parent" sentinel
NIL == -1

Nth(v, i) == v[i + 1]
Last(v) == v[Len(v)]
Front(v) == SubSeq(v, 1, Len(v) - 1)
Range(v) == {v[i] : i \in 1..Len(v)}
Reverse(v) == [i \in 1..Len(v) |-> v[Len(v) + 1 - i]]
InsertAt(v, pos, x) == SubSeq(v, 1, pos) \o <<x>> \o SubSeq(v, pos + 1, Len(v))
SetIdx(v, i, x) == [v EXCEPT ![i + 1] = x]

-----------------------------------------------------------------------------
(* grammar.rs: the structured grammar *)

Terminal(s) == [id |-> "Terminal", s |-> s]
Nonterminal(s) == [id |-> "Nonterminal", s |-> s]
Component_new(r) == [rule |-> r, name |-> None]
Production_new == [name |-> None, components |-> <<>>]

Grammar_new == [prod_seq_no |-> 0, nonterm_prod_map |-> <<>>, productions |-> <<>>]

add_rule(g, nonterm_name, prod) ==
    LET prod_id == g.prod_seq_no
        old == IF nonterm_name \in DOMAIN g.nonterm_prod_map
               THEN g.nonterm_prod_map[nonterm_name] ELSE <<>>
    IN [prod_seq_no |-> g.prod_seq_no + 1,
        productions |-> (prod_id :> prod) @@ g.productions,
        nonterm_prod_map |->
            (nonterm_name :> Append(old, prod_id)) @@ g.nonterm_prod_map]

\* Grammar::nonterminals returns the keys of a HashMap: any order of them
Permutations_of(S) ==
    {p \in [1..Cardinality(S) -> S] : \A x \in S : \E i \in DOMAIN p : p[i] = x}
nonterminals(g) == Permutations_of(DOMAIN g.nonterm_prod_map)

\* iter_over_nonterm, lines 101-109: the productions behind a list of ids
RECURSIVE productions_of(_, _)
productions_of(g, pids) ==
    IF pids = <<>> THEN <<>>
    ELSE (IF Head(pids) \in DOMAIN g.productions
          THEN <<g.productions[Head(pids)]>> ELSE <<>>)
         \o productions_of(g, Tail(pids))

iter_over_nonterm(g, name) ==
    IF name \in DOMAIN g.nonterm_prod_map
    THEN productions_of(g, g.nonterm_prod_map[name])
    ELSE <<>>

-----------------------------------------------------------------------------
(* compiler.rs: CompiledGrammar and compile_grammar *)

CompiledGrammar_new == [strings |-> <<>>, opcodes |-> <<>>, nt_names |-> <<>>]

at(c, ip) == Nth(c.opcodes, ip)

\* lookup_nonterm_idx taking string index 0 for "no nonterminal"
lookup_nonterm_idx_nonzero(c, ntidx) ==
    IF ntidx # 0 /\ ntidx \in DOMAIN c.nt_names THEN c.nt_names[ntidx] ELSE <<>>

lookup_nonterm_idx(c, ntidx) ==
    IF ntidx \in DOMAIN c.nt_names THEN c.nt_names[ntidx] ELSE <<>>

position(v, s) ==
    IF \E i \in 1..Len(v) : v[i] = s
    THEN Some((CHOOSE i \in 1..Len(v) :
                  v[i] = s /\ \A j \in 1..(i - 1) : v[j] # s) - 1)
    ELSE None

lookup_string(c, s) == position(c.strings, s)

\* add_string that appends without looking the string up
add_string_always(c, s) ==
    [c |-> [c EXCEPT !.strings = Append(@, s)], idx |-> Len(c.strings)]

\* add_string mutates the table and returns the index: [c, idx]
add_string(c, s) ==
    LET idx == position(c.strings, s)
    IN IF IsSome(idx)
       THEN [c |-> c, idx |-> Unwrap(idx)]
       ELSE [c |-> [c EXCEPT !.strings = Append(@, s)],
             idx |-> Len(c.strings)]

\* Option<&String>.map(|v| self.add_string(v)): [c, idx] with idx an Option
add_string_opt(c, name_opt) ==
    IF IsSome(name_opt)
    THEN LET r == add_string(c, Unwrap(name_opt))
         IN [c |-> r.c, idx |-> Some(r.idx)]
    ELSE [c |-> c, idx |-> None]

add_nonterm_prod(c, nt_name) ==
    LET r == add_string(c, nt_name)
        addr == Len(r.c.opcodes)
        addrs == IF r.idx \in DOMAIN r.c.nt_names THEN r.c.nt_names[r.idx] ELSE <<>>
    IN [r.c EXCEPT !.nt_names = (r.idx :> Append(addrs, addr)) @@ @]

\* op_return with the two interned indices mixed up: a labelled production
\* returns under its label
op_return_by_label(c, ntname, name) ==
    LET n == add_string_opt(c, name)
        t == add_string(n.c, ntname)
    IN [t.c EXCEPT !.opcodes =
            Append(@, [op |-> "Return",
                       ntnameidx |-> IF IsSome(n.idx) THEN Unwrap(n.idx) ELSE t.idx,
                       nameidx |-> n.idx])]

op_return(c, ntname, name) ==
    LET n == add_string_opt(c, name)
        t == add_string(n.c, ntname)
    IN [t.c EXCEPT !.opcodes =
            Append(@, [op |-> "Return", ntnameidx |-> t.idx, nameidx |-> n.idx])]

op_fork(c, nonterm_name, var_name_opt) ==
    LET f == add_string(c, nonterm_name)
        v == add_string_opt(f.c, var_name_opt)
    IN [v.c EXCEPT !.opcodes =
            Append(@, [op |-> "Fork", ntidx |-> f.idx, nameidx |-> v.idx])]

op_match(c, value, var_name_opt) ==
    LET m == add_string(c, value)
        v == add_string_opt(m.c, var_name_opt)
    IN [v.c EXCEPT !.opcodes =
            Append(@, [op |-> "Match", validx |-> m.idx, nameidx |-> v.idx])]

\* compile_grammar, lines 152-163: the components of one production from the i-th
RECURSIVE compile_components(_, _, _)
compile_components(cc, coms, k) ==
    IF k > Len(coms) THEN cc
    ELSE LET com == coms[k]
             cnext == IF com.rule.id = "Nonterminal"
                   THEN op_fork(cc, com.rule.s, com.name)
                   ELSE op_match(cc, com.rule.s, com.name)
         IN compile_components(cnext, coms, k + 1)

\* compile_grammar, lines 148-165: one production of nonterminal nt
compile_production(c, nt, prod) ==
    LET cp1 == add_nonterm_prod(c, nt)
        cp2 == compile_components(cp1, prod.components, 1)
    IN op_return(cp2, nt, prod.name)

\* compile_grammar, lines 145-148: the <<nt, production>> pairs in the order the
\* two nested loops visit them, for one enumeration order of g.nonterminals()
RECURSIVE pair_up(_, _)
pair_up(nt, prods) ==
    IF prods = <<>> THEN <<>> ELSE <<<<nt, Head(prods)>>>> \o pair_up(nt, Tail(prods))
RECURSIVE visit_order(_, _)
visit_order(g, order) ==
    IF order = <<>> THEN <<>>
    ELSE pair_up(Head(order), iter_over_nonterm(g, Head(order)))
         \o visit_order(g, Tail(order))

-----------------------------------------------------------------------------
(* grammar.rs: load_grammar_str.  The text of a token is the sequence of its   *)
(* characters; a String is that text as one string.                            *)

RECURSIVE Str(_)
Str(text) == IF text = <<>> THEN "" ELSE Head(text) \o Str(Tail(text))

Quoted(text) == <<"'">> \o text \o <<"'">>
Bare(text) == text

\* resolve, lines 163-173: s[start..end], start after a leading apostrophe and
\* end before a trailing one; for the text of one apostrophe start is 1 and end
\* is 0, and the slice panics (None)
strip_quotes(text) ==
    LET start == IF text # <<>> /\ text[1] = "'" THEN 1 ELSE 0
        end == IF text # <<>> /\ text[Len(text)] = "'" THEN Len(text) - 1 ELSE Len(text)
    IN IF start > end THEN None ELSE Some(SubSeq(text, start + 1, end))

\* resolve taking every text without apostrophes for a nonterminal
resolve_rule_bare(g, rule) ==
    IF rule.id = "Terminal"
    THEN IF strip_quotes(rule.s) = Some(rule.s)
         THEN Some(Nonterminal(Str(rule.s)))
         ELSE IF IsSome(strip_quotes(rule.s))
         THEN Some(Terminal(Str(Unwrap(strip_quotes(rule.s)))))
         ELSE None
    ELSE Some(rule)

\* resolve, lines 158-180: a Terminal whose text is the name of a nonterminal
\* becomes a Nonterminal, any other loses its apostrophes; None when the slice
\* of line 172 panics
resolve_rule(g, rule) ==
    IF rule.id = "Terminal"
    THEN IF Str(rule.s) \in DOMAIN g.nonterm_prod_map
         THEN Some(Nonterminal(Str(rule.s)))
         ELSE IF IsSome(strip_quotes(rule.s))
         THEN Some(Terminal(Str(Unwrap(strip_quotes(rule.s)))))
         ELSE None
    ELSE Some(rule)

\* resolve, lines 157-181: the components of one production; None when one of
\* them panics
resolve_production(g, prod) ==
    LET rules == [n \in 1..Len(prod.components) |->
                     resolve_rule(g, prod.components[n].rule)]
    IN IF \E n \in 1..Len(rules) : rules[n] = None THEN None
       ELSE Some([name |-> prod.name,
                  components |-> [n \in 1..Len(prod.components) |->
                                     [rule |-> Unwrap(rules[n]),
                                      name |-> prod.components[n].name]]])

\* resolve, lines 155-184: the grammar with every production resolved; None
\* when resolve panics
resolve(g) ==
    LET prods == [pid \in DOMAIN g.productions |->
                     resolve_production(g, g.productions[pid])]
    IN IF \E pid \in DOMAIN prods : prods[pid] = None THEN None
       ELSE Some([prod_seq_no |-> g.prod_seq_no,
                  nonterm_prod_map |-> g.nonterm_prod_map,
                  productions |-> [pid \in DOMAIN prods |-> Unwrap(prods[pid])]])

-----------------------------------------------------------------------------
(* Grammars handed to compile_grammar, as load_grammar_str leaves them *)

T(s) == Component_new(Terminal(s))
Tb(s, b) == [rule |-> Terminal(s), name |-> Some(b)]
N(s) == Component_new(Nonterminal(s))
Nb(s, b) == [rule |-> Nonterminal(s), name |-> Some(b)]
P(coms) == [name |-> None, components |-> coms]
Pl(coms, label) == [name |-> Some(label), components |-> coms]

\* load_grammar_str, lines 216-320: one add_rule per production, in source order
RECURSIVE load_rules(_, _, _)
load_rules(g, rules, i) ==
    IF i > Len(rules) THEN g
    ELSE load_rules(add_rule(g, rules[i][1], rules[i][2]), rules, i + 1)
load_grammar(rules) == load_rules(Grammar_new, rules, 1)

\* S : X; X : 'x' | 'x';
GAmbiguous == load_grammar(<< <<"S", P(<<N("X")>>)>>,
                              <<"X", P(<<T("x")>>)>>, <<"X", P(<<T("x")>>)>> >>)
\* R : 'a' R | 'b';
GRec == load_grammar(<< <<"R", P(<<T("a"), N("R")>>)>>, <<"R", P(<<T("b")>>)>> >>)
\* A : 'a'; E : 'e' | ; Z : A E A;
GEmpty == load_grammar(<< <<"A", P(<<T("a")>>)>>,
                          <<"E", P(<<T("e")>>)>>, <<"E", P(<<>>)>>,
                          <<"Z", P(<<N("A"), N("E"), N("A")>>)>> >>)
\* S : 'a' S 'a' | 'a';
GPalindrome == load_grammar(<< <<"S", P(<<T("a"), N("S"), T("a")>>)>>,
                               <<"S", P(<<T("a")>>)>> >>)
\* A : 'w'; Q : 'a' Q | ;
GTail == load_grammar(<< <<"A", P(<<T("w")>>)>>,
                         <<"Q", P(<<T("a"), N("Q")>>)>>, <<"Q", P(<<>>)>> >>)
\* W : 'z' `z` | 's'(sn) 'w'(wn) `wtyperule`;
\* START : 'b'(bn) W(wtypent) 'z' `startrule`;
GNamed == load_grammar(<<
    <<"W", Pl(<<T("z")>>, "z")>>,
    <<"W", Pl(<<Tb("s", "sn"), Tb("w", "wn")>>, "wtyperule")>>,
    <<"START", Pl(<<Tb("b", "bn"), Nb("W", "wtypent"), T("z")>>, "startrule")>> >>)
\* S : A A `two` | 'a' `one`; A : 'a' `a` | `none`;
GNullable == load_grammar(<< <<"S", Pl(<<N("A"), N("A")>>, "two")>>,
                             <<"S", Pl(<<T("a")>>, "one")>>,
                             <<"A", Pl(<<T("a")>>, "a")>>,
                             <<"A", Pl(<<>>, "none")>> >>)
\* S : S 'a' | 'a';
GLeftRec == load_grammar(<< <<"S", P(<<N("S"), T("a")>>)>>, <<"S", P(<<T("a")>>)>> >>)
\* S : E S 'a' | 'b'; E : ;
GHiddenLeftRec == load_grammar(<< <<"S", P(<<N("E"), N("S"), T("a")>>)>>,
                                  <<"S", P(<<T("b")>>)>>, <<"E", P(<<>>)>> >>)

\* A : 'a'; E : ; Z : A E A A A;
GEmptyNt == load_grammar(<< <<"A", P(<<T("a")>>)>>, <<"E", P(<<>>)>>,
                            <<"Z", P(<<N("A"), N("E"), N("A"), N("A"), N("A")>>)>> >>)
\* A : 'a'; E : 'e' | ; X : A E A A A;
GEmpty2Nt == load_grammar(<< <<"A", P(<<T("a")>>)>>,
                             <<"E", P(<<T("e")>>)>>, <<"E", P(<<>>)>>,
                             <<"X", P(<<N("A"), N("E"), N("A"), N("A"), N("A")>>)>> >>)

\* load_grammar_str, lines 194-322: every component is read as a Terminal of
\* its text, then resolve; None when resolve panics
load_grammar_str(rules) == resolve(load_rules(Grammar_new, rules, 1))
\* S : A(x) B 'A'(n) `s`; A : 'a' | ;    (B is not defined)
UndefinedRules ==
    << <<"S", Pl(<<Tb(Bare(<<"A">>), "x"), T(Bare(<<"B">>)), Tb(Quoted(<<"A">>), "n")>>,
                 "s")>>,
       <<"A", P(<<T(Quoted(<<"a">>))>>)>>, <<"A", P(<<>>)>> >>
GUndefined == Unwrap(load_grammar_str(UndefinedRules))

\* 'q' : 'b'; S : 'q' q \' W; W : "w";    (a nonterminal named 'q', no q)
QuotedNameRules ==
    << <<"'q'", P(<<T(Quoted(<<"b">>))>>)>>,
       <<"S", P(<<T(Quoted(<<"q">>)), T(Bare(<<"q">>)), T(<<"\\", "'">>),
                  T(Bare(<<"W">>))>>)>>,
       <<"W", P(<<T(<<"\"", "w", "\"">>)>>)>> >>

\* S : '\x' ;    (the escape ends the token of the opening apostrophe, so the
\* tokenizer yields S, :, ', \x' and ;)
ApostropheRules == << <<"S", P(<<T(<<"'">>), T(<<"\\", "x", "'">>)>>)>> >>

\* the grammar texts read with load_grammar_str
TextRules == {UndefinedRules, QuotedNameRules, ApostropheRules}

AllGrammars == {GAmbiguous, GRec, GEmpty, GPalindrome, GTail, GNamed, GNullable,
                GLeftRec, GHiddenLeftRec}

NontermNames(g) == DOMAIN g.nonterm_prod_map
ProdsOf(g, nt) == iter_over_nonterm(g, nt)
AllProds(g) == UNION {Range(ProdsOf(g, nt)) : nt \in NontermNames(g)}
Terminals(g) ==
    {c.rule.s : c \in {c \in UNION {Range(p.components) : p \in AllProds(g)} :
                          c.rule.id = "Terminal"}}

\* the nonterminals all of whose components can derive the empty string
RECURSIVE NullableFrom(_, _)
NullableFrom(g, S) ==
    LET S1 == {nt \in NontermNames(g) :
                  \E p \in Range(ProdsOf(g, nt)) :
                      \A c \in Range(p.components) :
                          c.rule.id = "Nonterminal" /\ c.rule.s \in S}
    IN IF S1 = S THEN S ELSE NullableFrom(g, S1)
Nullable(g) == NullableFrom(g, {})

\* B is forked from a production of A before any Match of that production
LeftCalls(g, A) ==
    {B \in NontermNames(g) :
        \E p \in Range(ProdsOf(g, A)) : \E i \in 1..Len(p.components) :
            /\ p.components[i].rule = Nonterminal(B)
            /\ \A j \in 1..(i - 1) :
                  /\ p.components[j].rule.id = "Nonterminal"
                  /\ p.components[j].rule.s \in Nullable(g)}

RECURSIVE LeftReach(_, _)
LeftReach(g, S) ==
    LET S1 == S \cup UNION {LeftCalls(g, A) : A \in S}
    IN IF S1 = S THEN S ELSE LeftReach(g, S1)

\* some nonterminal can be re-entered by Fork without a Match in between
LeftRecursive(g) ==
    \E A \in NontermNames(g) : \E B \in LeftCalls(g, A) : A \in LeftReach(g, {B})

\* run from start forks, before any Match, a nonterminal that can be re-entered
\* by Fork without a Match in between
LeftRecursiveFrom(g, start) ==
    \E A \in LeftReach(g, {start}) : \E B \in LeftCalls(g, A) : A \in LeftReach(g, {B})

Grammars == {g \in AllGrammars : ~LeftRecursive(g)}

TokenSeqs(g) == UNION {[1..n -> Terminals(g)] : n \in 0..MaxTokens}

-----------------------------------------------------------------------------
(* vm.rs: SharedStack *)

SharedStack_new == <<>>

\* push onto the item pushed last, whatever sp is given
push_linear(stack, sp, u) ==
    [stack |-> Append(stack, [u |-> u, prev |-> Len(stack) - 1]), sp |-> Len(stack)]
\* push appends and returns the new sp: [stack, sp]
push(stack, sp, u) ==
    [stack |-> Append(stack, [u |-> u, prev |-> sp]), sp |-> Len(stack)]
top(stack, sp) == Nth(stack, sp).u
pop(stack, sp) == Nth(stack, sp).prev

-----------------------------------------------------------------------------
(* vm.rs: the fragment arena *)

RuleStart(parent, name, ntname) ==
    [type |-> "RuleStart", parent |-> parent, name |-> name, ntname |-> ntname]
RuleTermValue(prev, tok, name) ==
    [type |-> "RuleTermValue", prev |-> prev, tokidx |-> tok, name |-> name]
RuleNonTerm(child, ntnameidx, ev_name) ==
    [type |-> "RuleNonTerm", child |-> child, ntnameidx |-> ntnameidx,
     ev_name |-> ev_name]
ParseFragment(refcount, value) == [refcount |-> refcount, value |-> value]

prev_fragment(frags, fragidx, default) ==
    LET v == Nth(frags, fragidx).value
    IN CASE v.type = "RuleStart" ->
                IF IsSome(v.parent) THEN Unwrap(v.parent) ELSE default
         [] v.type = "RuleTermValue" -> v.prev
         [] v.type = "RuleNonTerm" -> v.child

\* store_fragment taking the first slot of the freelist
store_fragment_lowest(frags, fl, frag) ==
    IF fl # <<>>
    THEN [fragments |-> SetIdx(frags, Head(fl), frag), freelist |-> Tail(fl),
          idx |-> Head(fl)]
    ELSE [fragments |-> Append(frags, frag), freelist |-> fl, idx |-> Len(frags)]

\* run, lines 348-359 (again 392-403 and 470-481): take the slot freelist.pop()
\* gives, else push a new one: [fragments, freelist, idx]
store_fragment(frags, fl, frag) ==
    IF fl # <<>>
    THEN [fragments |-> SetIdx(frags, Last(fl), frag), freelist |-> Front(fl),
          idx |-> Last(fl)]
    ELSE [fragments |-> Append(frags, frag), freelist |-> fl, idx |-> Len(frags)]

\* a search that answers the front of the slice, whatever the key
binary_search_front(keys, key) == {0}

\* slice::binary_search on sorted keys: the insertion positions it may return
\* (Ok(pos) of any equal element, else the one Err(pos))
binary_search(keys, key) ==
    IF \E i \in 1..Len(keys) : keys[i] = key
    THEN {i - 1 : i \in {n \in 1..Len(keys) : keys[n] = key}}
    ELSE {Cardinality({n \in 1..Len(keys) : keys[n] < key})}

\* release that frees the thread's own fragment and walks no further
release_one(frags, fl, fragidx) ==
    IF ~(Nth(frags, fragidx).refcount > 0)
    THEN [fragments |-> frags, freelist |-> fl, ok |-> FALSE]
    ELSE LET rc == Nth(frags, fragidx).refcount - 1
             dec == SetIdx(frags, fragidx, [Nth(frags, fragidx) EXCEPT !.refcount = rc])
             at_pos == CHOOSE q \in binary_search(fl, fragidx) :
                          \A r \in binary_search(fl, fragidx) : q <= r
         IN [fragments |-> dec,
             freelist |-> IF rc = 0 THEN InsertAt(fl, at_pos, fragidx) ELSE fl,
             ok |-> TRUE]

\* run, lines 487-504: a dead thread gives up its reference; every fragment whose
\* refcount reaches zero goes to the sorted freelist and the walk continues to
\* its predecessor.  ok = FALSE when the assertion refcount > 0 fails.
RECURSIVE release(_, _, _)
release(frags, fl, fragidx) ==
    IF fragidx = NIL
    THEN [fragments |-> frags, freelist |-> fl, ok |-> TRUE]
    ELSE IF ~(Nth(frags, fragidx).refcount > 0)
    THEN [fragments |-> frags, freelist |-> fl, ok |-> FALSE]
    ELSE LET rc == Nth(frags, fragidx).refcount - 1
             dec == SetIdx(frags, fragidx, [Nth(frags, fragidx) EXCEPT !.refcount = rc])
             at_pos == CHOOSE q \in binary_search(fl, fragidx) :
                          \A r \in binary_search(fl, fragidx) : q <= r
         IN IF rc = 0
            THEN CHOOSE out \in {release(v[1], v[2], v[3]) :
                                    v \in {<<dec, InsertAt(fl, at_pos, fragidx),
                                             prev_fragment(dec, fragidx, NIL)>>}} : TRUE
            ELSE [fragments |-> dec, freelist |-> fl, ok |-> TRUE]

-----------------------------------------------------------------------------
(* vm.rs: ParsedTrees *)

ParsedTrees_new(frags, tls, strings) ==
    [fragments |-> frags, tails |-> tls, strings |-> strings]

count(pt) == Len(pt.tails)

\* count_at_n counting the tails that consumed more than n tokens
count_at_n_strict(pt, n) == Cardinality({i \in 1..Len(pt.tails) : pt.tails[i][2] > n})

count_at_n(pt, n) == Cardinality({i \in 1..Len(pt.tails) : pt.tails[i][2] >= n})

start_call(ntname, name) == [call |-> "start", ntname |-> ntname, name |-> name]
end_call(ntname, xname) == [call |-> "end", ntname |-> ntname, xname |-> xname]
term_call(tok, name) == [call |-> "term", tokidx |-> tok, name |-> name]

\* Option<usize>.map(|x| &self.strings[x])
name_string(pt, name) == IF IsSome(name) THEN Some(Nth(pt.strings, Unwrap(name))) ELSE None

\* stream, lines 168-185: the handler call made for one spine entry
stream_entry(pt, fragidx) ==
    LET v == Nth(pt.fragments, fragidx).value
    IN CASE v.type = "RuleStart" ->
                start_call(Nth(pt.strings, v.ntname), name_string(pt, v.name))
         [] v.type = "RuleTermValue" ->
                term_call(v.tokidx, name_string(pt, v.name))
         [] v.type = "RuleNonTerm" ->
                end_call(Nth(pt.strings, v.ntnameidx), name_string(pt, v.ev_name))

\* stream without the closing end of the root rule
stream_unclosed(pt, indexes, index) ==
    LET first == Nth(pt.fragments, Nth(indexes, index)).value
    IN IF first.type = "RuleStart"
       THEN <<start_call(Nth(pt.strings, first.ntname), name_string(pt, first.name))>>
            \o [n \in 1..(Len(indexes) - index - 1) |->
                    stream_entry(pt, Nth(indexes, index + n))]
       ELSE <<[call |-> "panic"]>>

\* stream: the handler calls for indexes[index..], in order
stream(pt, indexes, index) ==
    LET first == Nth(pt.fragments, Nth(indexes, index)).value
    IN IF first.type = "RuleStart"
       THEN <<start_call(Nth(pt.strings, first.ntname), name_string(pt, first.name))>>
            \o [n \in 1..(Len(indexes) - index - 1) |->
                    stream_entry(pt, Nth(indexes, index + n))]
            \o <<end_call(Nth(pt.strings, first.ntname), name_string(pt, first.name))>>
       ELSE <<[call |-> "panic"]>>

\* execute, lines 206-211: the indexes from the tail back to the root
RECURSIVE walk_back(_, _)
walk_back(frags, curr) ==
    IF curr = NIL THEN <<>>
    ELSE <<curr>> \o walk_back(frags, prev_fragment(frags, curr, NIL))

execute(pt, tidx) ==
    LET tail == Nth(pt.tails, tidx)
        indexes == Reverse(walk_back(pt.fragments, tail[1]))
    IN stream(pt, indexes, 0)

-----------------------------------------------------------------------------
(* The caller's oracle, as the tests write it: |s, i| i < tokens.len() && tokens[i] == s *)

\* an oracle that accepts whatever token there is
match_fn_any_token(toks, s, i) == i < Len(toks)

match_fn(toks, s, i) == i < Len(toks) /\ Nth(toks, i) = s

-----------------------------------------------------------------------------
(* The state machine: compile_grammar, then run, then execute *)

run_vars == <<fragments, tails, runnable, matchable, freelist, shared_stack,
              matched, prev_validx, tokidx>>
input_vars == <<G, tokens, nt_start, min_match, debug_level, tidx_arg, memory>>
log_vars == <<oracle_calls, parked>>

RemoveAt(v, t) == SubSeq(v, 1, t - 1) \o SubSeq(v, t + 1, Len(v))

\* nothing is compiled and nothing has run
InitRest ==
    /\ min_match \in 0..MaxMinMatch
    /\ debug_level = 0
    /\ tidx_arg = 0
    /\ cg = CompiledGrammar_new
    /\ todo = <<>>
    /\ fragments = <<>>
    /\ tails = <<>>
    /\ runnable = <<>>
    /\ matchable = <<>>
    /\ freelist = <<>>
    /\ shared_stack = SharedStack_new
    /\ matched = <<>>
    /\ prev_validx = NIL
    /\ tokidx = 0
    /\ oracle_calls = <<>>
    /\ parked = {}
    /\ events = <<>>
    /\ prior = None
    /\ runs = 0

InitWith(grammars) ==
    /\ G \in grammars
    /\ tokens \in TokenSeqs(G)
    /\ nt_start \in NontermNames(G)
    /\ pc = "compile_grammar"
    /\ memory = None
    /\ InitRest

Init == InitWith(Grammars)

\* compile_grammar, lines 141-145: a fresh CompiledGrammar and the enumeration
\* g.nonterminals() returns
compile_grammar_begin ==
    /\ pc = "compile_grammar"
    /\ \E order \in nonterminals(G) : todo' = visit_order(G, order)
    /\ cg' = CompiledGrammar_new
    /\ pc' = IF todo' = <<>> THEN "run" ELSE "compiling"
    /\ UNCHANGED <<input_vars, run_vars, log_vars, events, prior, runs>>

\* compile_grammar, lines 148-165: one turn of the inner loop
compile_grammar_production ==
    /\ pc = "compiling"
    /\ cg' = compile_production(cg, Head(todo)[1], Head(todo)[2])
    /\ todo' = Tail(todo)
    /\ pc' = IF todo' = <<>> THEN "run" ELSE "compiling"
    /\ UNCHANGED <<input_vars, run_vars, log_vars, events, prior, runs>>

\* the initial threads started at every production of the program, in address
\* order, whatever the start nonterminal
initial_thread_addrs_every(c, nt_start_idx) ==
    LET addrs == UNION {Range(c.nt_names[k]) : k \in DOMAIN c.nt_names}
    IN IF addrs = {} THEN <<>>
       ELSE CHOOSE v \in [1..Cardinality(addrs) -> addrs] :
                \A i, j \in DOMAIN v : i < j => v[i] < v[j]

\* run, line 271: the addresses the initial threads start at
initial_thread_addrs(c, nt_start_idx) == lookup_nonterm_idx(c, nt_start_idx)

\* run, lines 269-286: one root RuleStart and one thread per production of nt_start
root_fragments(idx, addrs) ==
    [n \in 1..Len(addrs) |-> ParseFragment(1, RuleStart(None, None, idx))]
\* root_threads starting the first production of nt_start only
root_threads_first(addrs) ==
    [n \in 1..(IF addrs = <<>> THEN 0 ELSE 1) |->
        [sp |-> NIL, ip |-> addrs[n], fragidx |-> n - 1]]
root_threads(addrs) ==
    [n \in 1..Len(addrs) |-> [sp |-> NIL, ip |-> addrs[n], fragidx |-> n - 1]]

\* run, lines 249-291: the locals, the initial threads, the first loop test
run_begin ==
    /\ pc = "run"
    /\ LET nt_start_idx == lookup_string(cg, nt_start)
       IN IF ~IsSome(nt_start_idx)
          THEN /\ pc' = "panic"
               /\ UNCHANGED run_vars
          ELSE LET addrs == initial_thread_addrs(cg, Unwrap(nt_start_idx))
               IN /\ matched' = [n \in 1..Len(cg.strings) |-> 0]
                  /\ fragments' = root_fragments(Unwrap(nt_start_idx), addrs)
                  /\ runnable' = root_threads(addrs)
                  /\ tails' = <<>>
                  /\ matchable' = <<>>
                  /\ freelist' = <<>>
                  /\ shared_stack' = SharedStack_new
                  /\ tokidx' = 0
                  /\ prev_validx' = NIL
                  /\ pc' = IF runnable' = <<>> THEN "done" ELSE "dispatch"
    /\ UNCHANGED <<input_vars, cg, todo, log_vars, events, prior, runs>>

\* core::slice::binary_search_by as the program is built: the loop halves the
\* slice and moves its base onto every element that is not greater than the
\* key, so of several equal elements it finds the last
RECURSIVE binary_search_by_loop(_, _, _, _)
binary_search_by_loop(keys, key, base, size) ==
    IF size > 1
    THEN binary_search_by_loop(keys, key,
                               IF Nth(keys, base + (size \div 2)) > key
                               THEN base ELSE base + (size \div 2),
                               size - (size \div 2))
    ELSE base
binary_search_by(keys, key) ==
    IF keys = <<>> THEN {0}
    ELSE LET base == binary_search_by_loop(keys, key, 0, Len(keys))
         IN IF Nth(keys, base) = key THEN {base}
            ELSE {base + IF Nth(keys, base) < key THEN 1 ELSE 0}

\* run, lines 329-336: the thread at a Match is parked, matchable kept sorted;
\* built: the binary search of line 331 is the one of the build, else any
\* position the documentation of slice::binary_search_by_key allows
dispatch_Match_by(t, built) ==
    /\ pc = "dispatch"
    /\ t \in 1..Len(runnable)
    /\ at(cg, runnable[t].ip).op = "Match"
    /\ LET thread == runnable[t]
           validx == at(cg, thread.ip).validx
           keys == [n \in 1..Len(matchable) |-> matchable[n][1]]
       IN /\ \E pos \in IF built THEN binary_search_by(keys, validx)
                                 ELSE binary_search(keys, validx) :
                matchable' = InsertAt(matchable, pos, <<validx, thread>>)
          /\ parked' = parked \cup {<<validx, tokidx>>}
    /\ runnable' = RemoveAt(runnable, t)
    /\ UNCHANGED <<input_vars, cg, todo, pc, fragments, tails, freelist, shared_stack,
                   matched, prev_validx, tokidx, oracle_calls, events, prior, runs>>

dispatch_Match(t) == dispatch_Match_by(t, FALSE)

\* run, lines 361-377: one child thread per production of the forked nonterminal,
\* each on its own new stack item above the parent's stack
fork_stack(stack, thread, addrs) ==
    stack \o [n \in 1..Len(addrs) |-> [u |-> thread.ip, prev |-> thread.sp]]
\* fork_threads for the first production of the forked nonterminal only
fork_threads_first(stack, thread, addrs, fragment_idx) ==
    [n \in 1..(IF addrs = <<>> THEN 0 ELSE 1) |->
        [sp |-> Len(stack) + n - 1, ip |-> addrs[n], fragidx |-> fragment_idx]]
fork_threads(stack, thread, addrs, fragment_idx) ==
    [n \in 1..Len(addrs) |->
        [sp |-> Len(stack) + n - 1, ip |-> addrs[n], fragidx |-> fragment_idx]]
\* fork_fragment counting one reference, however many children are forked
fork_fragment_single(thread, opcode, addrs) ==
    ParseFragment(1, RuleStart(Some(thread.fragidx), opcode.nameidx, opcode.ntidx))
\* run, lines 339-346 and 368: the RuleStart of a Fork, once every child is counted
fork_fragment(thread, opcode, addrs) ==
    ParseFragment(Len(addrs), RuleStart(Some(thread.fragidx), opcode.nameidx, opcode.ntidx))

\* run, lines 337-378
dispatch_Fork(t) ==
    /\ pc = "dispatch"
    /\ t \in 1..Len(runnable)
    /\ at(cg, runnable[t].ip).op = "Fork"
    /\ LET thread == runnable[t]
           opcode == at(cg, thread.ip)
           addrs == lookup_nonterm_idx(cg, opcode.ntidx)
           a == store_fragment(fragments, freelist, fork_fragment(thread, opcode, addrs))
       IN /\ fragments' = a.fragments
          /\ freelist' = a.freelist
          /\ shared_stack' = fork_stack(shared_stack, thread, addrs)
          /\ runnable' = RemoveAt(runnable, t)
                           \o fork_threads(shared_stack, thread, addrs, a.idx)
    /\ UNCHANGED <<input_vars, cg, todo, pc, tails, matchable, matched, prev_validx,
                   tokidx, log_vars, events, prior, runs>>

\* return_fragment leaving a RuleNonTerm that has lost its child
return_fragment_childless(thread, opcode) ==
    ParseFragment(1, RuleNonTerm(NIL, opcode.ntnameidx, opcode.nameidx))

\* return_fragment that drops the label of the production
return_fragment_unlabelled(thread, opcode) ==
    ParseFragment(1, RuleNonTerm(thread.fragidx, opcode.ntnameidx, None))

\* run, lines 383-390: the RuleNonTerm a nested Return leaves
return_fragment(thread, opcode) ==
    ParseFragment(1, RuleNonTerm(thread.fragidx, opcode.ntnameidx, opcode.nameidx))
\* return_thread leaving the stack pointer where it is
return_thread_same_sp(stack, thread, fragment_idx) ==
    [sp |-> thread.sp, ip |-> top(stack, thread.sp) + 1, fragidx |-> fragment_idx]
\* run, lines 405-408: the thread resumes after the Fork it came from
return_thread(stack, thread, fragment_idx) ==
    [sp |-> pop(stack, thread.sp), ip |-> top(stack, thread.sp) + 1,
     fragidx |-> fragment_idx]

\* run, lines 379-409: Return of a thread that has a return address
dispatch_Return(t) ==
    /\ pc = "dispatch"
    /\ t \in 1..Len(runnable)
    /\ at(cg, runnable[t].ip).op = "Return"
    /\ runnable[t].sp # NIL
    /\ LET thread == runnable[t]
           a == store_fragment(fragments, freelist,
                               return_fragment(thread, at(cg, thread.ip)))
       IN /\ fragments' = a.fragments
          /\ freelist' = a.freelist
          /\ runnable' = Append(RemoveAt(runnable, t),
                                return_thread(shared_stack, thread, a.idx))
    /\ UNCHANGED <<input_vars, cg, todo, pc, tails, matchable, shared_stack, matched,
                   prev_validx, tokidx, log_vars, events, prior, runs>>

\* record_tail with a strict comparison against min_match
record_tail_strict(tls, thread, tok, min) ==
    IF tok > min THEN Append(tls, <<thread.fragidx, tok>>) ELSE tls

\* record_tail recording every finished parse, whatever min_match
record_tail_any(tls, thread, tok, min) == Append(tls, <<thread.fragidx, tok>>)

\* record_tail keeping the first finished parse only
record_tail_first(tls, thread, tok, min) ==
    IF tok >= min /\ tls = <<>> THEN <<<<thread.fragidx, tok>>>> ELSE tls

\* record_tail putting the finished parse in front of the others
record_tail_front(tls, thread, tok, min) ==
    IF tok >= min THEN <<<<thread.fragidx, tok>>>> \o tls ELSE tls

\* run, lines 411-415: a finished parse is recorded when it is long enough
record_tail(tls, thread, tok, min) ==
    IF tok >= min THEN Append(tls, <<thread.fragidx, tok>>) ELSE tls

\* run, lines 379-382 and 410-417: Return of a top-level thread
dispatch_Return_top(t) ==
    /\ pc = "dispatch"
    /\ t \in 1..Len(runnable)
    /\ at(cg, runnable[t].ip).op = "Return"
    /\ runnable[t].sp = NIL
    /\ tails' = record_tail(tails, runnable[t], tokidx, min_match)
    /\ runnable' = RemoveAt(runnable, t)
    /\ UNCHANGED <<input_vars, cg, todo, pc, fragments, matchable, freelist,
                   shared_stack, matched, prev_validx, tokidx, log_vars, events,
                   prior, runs>>

\* the cache carried over into the next step
reset_matched_keep(cache, strings) == cache

\* run, lines 423-425: every cached decision is forgotten
reset_matched(cache, strings) == [n \in 1..Len(strings) |-> 0]

\* match_phase_begin without the test of the dispatch loop
match_phase_begin_early ==
    /\ pc = "dispatch"
    /\ matchable' = Reverse(matchable)
    /\ matched' = reset_matched(matched, cg.strings)
    /\ prev_validx' = NIL
    /\ pc' = "match"
    /\ UNCHANGED <<input_vars, cg, todo, fragments, tails, runnable, freelist,
                   shared_stack, tokidx, log_vars, events, prior, runs>>

\* run, lines 420-430: the dispatch loop is over, the match phase is set up
match_phase_begin ==
    /\ pc = "dispatch"
    /\ runnable = <<>>
    /\ matchable' = Reverse(matchable)
    /\ matched' = reset_matched(matched, cg.strings)
    /\ prev_validx' = NIL
    /\ pc' = "match"
    /\ UNCHANGED <<input_vars, cg, todo, fragments, tails, runnable, freelist,
                   shared_stack, tokidx, log_vars, events, prior, runs>>

\* match_decision reading a cached refusal as an acceptance
match_decision_any_cached(cache, toks, strings, validx, tok) ==
    IF Nth(cache, validx) # 0
    THEN [result |-> TRUE, matched |-> cache, called |-> FALSE]
    ELSE LET match_result == match_fn(toks, Nth(strings, validx), tok)
         IN [result |-> match_result,
             matched |-> SetIdx(cache, validx, IF match_result THEN 1 ELSE -1),
             called |-> TRUE]

\* run, lines 441-454: the cached decision, else the oracle's, which is cached:
\* [result, matched, called]
match_decision(cache, toks, strings, validx, tok) ==
    IF Nth(cache, validx) = 1
    THEN [result |-> TRUE, matched |-> cache, called |-> FALSE]
    ELSE IF Nth(cache, validx) = -1
    THEN [result |-> FALSE, matched |-> cache, called |-> FALSE]
    ELSE LET match_result == match_fn(toks, Nth(strings, validx), tok)
         IN [result |-> match_result,
             matched |-> SetIdx(cache, validx, IF match_result THEN 1 ELSE -1),
             called |-> TRUE]

\* term_fragment recording the index of the token after the one matched
term_fragment_next(thread, nameidx, tok) ==
    ParseFragment(1, RuleTermValue(thread.fragidx, tok + 1, nameidx))

\* run, lines 458-468: the RuleTermValue of a matched token
term_fragment(thread, nameidx, tok) ==
    ParseFragment(1, RuleTermValue(thread.fragidx, tok, nameidx))
\* matched_thread stepping over the opcode behind its Match as well
matched_thread_skip(thread, fragment_idx) ==
    [sp |-> thread.sp, ip |-> thread.ip + 2, fragidx |-> fragment_idx]
\* run, lines 458 and 483: the thread steps over its Match
matched_thread(thread, fragment_idx) ==
    [sp |-> thread.sp, ip |-> thread.ip + 1, fragidx |-> fragment_idx]

\* run, lines 431-511: one turn of the match loop, for the entry at position m
\* (sorted_check: the assertion of lines 434-435 is part of the loop)
match_thread(m, sorted_check) ==
    /\ pc = "match"
    /\ m \in 1..Len(matchable)
    /\ LET tuple == matchable[m]
           thread == tuple[2]
           opcode == at(cg, thread.ip)
       IN IF sorted_check /\ ~(prev_validx = NIL \/ prev_validx <= tuple[1])
          THEN /\ pc' = "panic"
               /\ UNCHANGED <<fragments, runnable, matchable, freelist, matched,
                              prev_validx, oracle_calls>>
          ELSE IF opcode.op # "Match"
          THEN /\ pc' = "panic"
               /\ matchable' = RemoveAt(matchable, m)
               /\ prev_validx' = tuple[1]
               /\ UNCHANGED <<fragments, runnable, freelist, matched, oracle_calls>>
          ELSE LET d == match_decision(matched, tokens, cg.strings, opcode.validx, tokidx)
                   a == store_fragment(fragments, freelist,
                                       term_fragment(thread, opcode.nameidx, tokidx))
                   r == release(fragments, freelist, thread.fragidx)
               IN /\ matchable' = RemoveAt(matchable, m)
                  /\ prev_validx' = tuple[1]
                  /\ matched' = d.matched
                  /\ oracle_calls' = IF d.called
                                     THEN Append(oracle_calls, <<opcode.validx, tokidx>>)
                                     ELSE oracle_calls
                  /\ IF d.result
                     THEN /\ fragments' = a.fragments
                          /\ freelist' = a.freelist
                          /\ runnable' = Append(runnable, matched_thread(thread, a.idx))
                          /\ pc' = "match"
                     ELSE /\ fragments' = r.fragments
                          /\ freelist' = r.freelist
                          /\ runnable' = runnable
                          /\ pc' = IF r.ok THEN "match" ELSE "panic"
    /\ UNCHANGED <<input_vars, cg, todo, tails, shared_stack, tokidx, parked, events,
                   prior, runs>>

\* match_phase_end with an outer loop that does not test runnable
match_phase_end_loop ==
    /\ pc = "match"
    /\ matchable = <<>>
    /\ tokidx' = tokidx + 1
    /\ pc' = "dispatch"
    /\ UNCHANGED <<input_vars, cg, todo, fragments, tails, runnable, matchable,
                   freelist, shared_stack, matched, prev_validx, log_vars, events,
                   prior, runs>>

\* run, lines 512-522 and 291: the token is done; loop again or return the trees
match_phase_end ==
    /\ pc = "match"
    /\ matchable = <<>>
    /\ tokidx' = tokidx + 1
    /\ pc' = IF runnable = <<>> THEN "done" ELSE "dispatch"
    /\ UNCHANGED <<input_vars, cg, todo, fragments, tails, runnable, matchable,
                   freelist, shared_stack, matched, prev_validx, log_vars, events,
                   prior, runs>>

\* run, line 522: what run returns
parsed_trees == ParsedTrees_new(fragments, tails, cg.strings)

\* ParsedTrees::execute on one of the recorded trees
execute_tree ==
    /\ pc = "done"
    /\ \E tidx \in 0..(count(parsed_trees) - 1) :
          events' = execute(parsed_trees, tidx)
    /\ pc' = "executed"
    /\ UNCHANGED <<input_vars, cg, todo, run_vars, log_vars, prior, runs>>

\* self.tails[tidx] wrapping around the end of tails
tails_index_wrapping(pt, tidx) ==
    IF pt.tails = <<>> THEN None ELSE Some(Nth(pt.tails, tidx % Len(pt.tails)))

\* execute, line 204: self.tails[tidx], None for the panic of an index out of
\* range
tails_index(pt, tidx) ==
    IF tidx < Len(pt.tails) THEN Some(Nth(pt.tails, tidx)) ELSE None

\* execute, lines 200-214: whether it panicked, the handler calls made and the
\* fragments read
execute_at(pt, tidx) ==
    LET tail == tails_index(pt, tidx)
    IN IF ~IsSome(tail)
       THEN [panic |-> TRUE, events |-> <<>>, fragments_read |-> <<>>]
       ELSE LET indexes == Reverse(walk_back(pt.fragments, Unwrap(tail)[1]))
            IN [panic |-> FALSE, events |-> stream(pt, indexes, 0),
                fragments_read |-> indexes]

\* ParsedTrees::execute(tidx, handler), whatever tidx: the handler calls are
\* made, or the index of line 204 panics
execute_call(tidx) ==
    /\ pc = "done"
    /\ events' = events \o execute_at(parsed_trees, tidx).events
    /\ pc' = IF execute_at(parsed_trees, tidx).panic THEN "panic" ELSE "executed"
    /\ UNCHANGED <<input_vars, cg, todo, run_vars, log_vars, prior, runs>>

\* run as coded: runnable.pop() and matchable.pop() take the last element
Next ==
    \/ compile_grammar_begin
    \/ compile_grammar_production
    \/ run_begin
    \/ \E t \in {Len(runnable)} : dispatch_Match(t)
    \/ \E t \in {Len(runnable)} : dispatch_Fork(t)
    \/ \E t \in {Len(runnable)} : dispatch_Return(t)
    \/ \E t \in {Len(runnable)} : dispatch_Return_top(t)
    \/ match_phase_begin
    \/ \E m \in {Len(matchable)} : match_thread(m, TRUE)
    \/ match_phase_end
    \/ execute_tree

Spec == Init /\ [][Next]_vars

-----------------------------------------------------------------------------
(* The parse trees of the grammar, enumerated from the Grammar and the tokens     *)
(* alone: the yardstick for what run finds.  A derivation is [ev, k]: the handler *)
(* calls between a rule's start and end, and the token index it ends at.          *)

Returned == pc \in {"done", "executed"}

\* lst with f applied to each element, the resulting lists concatenated
RECURSIVE FlatMap(_, _)
FlatMap(f(_), lst) ==
    IF lst = <<>> THEN <<>> ELSE f(Head(lst)) \o FlatMap(f, Tail(lst))

RECURSIVE DeriveNt(_, _, _, _)
RECURSIVE DeriveComponents(_, _, _, _, _)

\* the ways to continue partial derivation part over the components from the ci-th
DeriveComponents(g, toks, coms, ci, part) ==
    IF ci > Len(coms) THEN <<part>>
    ELSE LET com == coms[ci]
             Wrap(d) == DeriveComponents(g, toks, coms, ci + 1,
                            [ev |-> part.ev
                                    \o <<start_call(com.rule.s, com.name)>>
                                    \o d.ev
                                    \o <<end_call(com.rule.s, d.label)>>,
                             k |-> d.k])
         IN IF com.rule.id = "Terminal"
            THEN IF match_fn(toks, com.rule.s, part.k)
                 THEN DeriveComponents(g, toks, coms, ci + 1,
                          [ev |-> Append(part.ev, term_call(part.k, com.name)),
                           k |-> part.k + 1])
                 ELSE <<>>
            ELSE FlatMap(Wrap, DeriveNt(g, toks, com.rule.s, part.k))

\* every derivation of nt from token index from on: [ev, k, label], one per way
DeriveNt(g, toks, nt, from) ==
    LET OfProd(prod) ==
            LET Labelled(d) == <<[ev |-> d.ev, k |-> d.k, label |-> prod.name]>>
            IN FlatMap(Labelled,
                       DeriveComponents(g, toks, prod.components, 1,
                                        [ev |-> <<>>, k |-> from]))
    IN FlatMap(OfProd, iter_over_nonterm(g, nt))

\* the parse trees of start over a prefix of toks of length >= min, as the
\* handler is to see them, each with its length
ParseTrees(g, toks, start, min) ==
    LET Rooted(d) ==
            IF d.k >= min
            THEN <<[ev |-> <<start_call(start, None)>> \o d.ev
                              \o <<end_call(start, None)>>,
                    k |-> d.k]>>
            ELSE <<>>
    IN FlatMap(Rooted, DeriveNt(g, toks, start, 0))

\* what run recorded: every tail's handler calls and tokens_consumed
TailTrees(pt) ==
    [n \in 1..count(pt) |-> [ev |-> execute(pt, n - 1), k |-> pt.tails[n][2]]]

BagOf(lst) == [x \in Range(lst) |-> Cardinality({n \in 1..Len(lst) : lst[n] = x})]

\* C1: completeness.  For a grammar without left recursion and the token-equality
\* oracle, the tails run returns correspond one to one to the pairs (parse tree
\* of nt_start over tokens[0..k), k) with min_match <= k <= N: every such pair
\* is found exactly as many times as it has derivations, each with
\* tokens_consumed = k, and nothing else is found.
C1_Completeness ==
    Returned =>
        BagOf(TailTrees(parsed_trees)) = BagOf(ParseTrees(G, tokens, nt_start, min_match))

\* S : X; X : 'x' | 'x' on [x] has been run, and both derivations were found
C1_Witness ==
    /\ Returned
    /\ G = GAmbiguous /\ nt_start = "S" /\ tokens = <<"x">> /\ min_match = 0
    /\ count(parsed_trees) = 2
    /\ Len(ParseTrees(G, tokens, nt_start, min_match)) = 2

-----------------------------------------------------------------------------
(* The handler's view of one execute *)

Executed == pc = "executed"

RECURSIVE BlockEnds(_, _, _, _, _)
RECURSIVE ChildrenEnds(_, _, _, _, _, _)

\* the positions in ev right after components bi.. of coms, read from position at
ChildrenEnds(g, toks, ev, coms, bi, at_ev) ==
    IF bi > Len(coms) THEN {at_ev}
    ELSE IF at_ev > Len(ev) THEN {}
    ELSE LET com == coms[bi]
             e == ev[at_ev]
         IN IF com.rule.id = "Terminal"
            THEN IF /\ e.call = "term"
                    /\ e.name = com.name
                    /\ match_fn(toks, com.rule.s, e.tokidx)
                 THEN ChildrenEnds(g, toks, ev, coms, bi + 1, at_ev + 1)
                 ELSE {}
            ELSE UNION {ChildrenEnds(g, toks, ev, coms, bi + 1, after) :
                           after \in BlockEnds(g, toks, ev, com.rule.s, at_ev)}

\* the positions in ev right after a start(nt) .. end(nt) block that begins at
\* position at and whose direct children are the components of a production of nt
BlockEnds(g, toks, ev, nt, at_ev) ==
    IF at_ev > Len(ev) \/ ev[at_ev].call # "start" THEN {}
    ELSE IF ev[at_ev].ntname # nt THEN {}
    ELSE {after + 1 :
            after \in {q \in UNION {ChildrenEnds(g, toks, ev, prod.components, 1, at_ev + 1) :
                                       prod \in Range(iter_over_nonterm(g, nt))} :
                          q <= Len(ev) /\ ev[q].call = "end" /\ ev[q].ntname = nt}}

IsParseTree(g, toks, start, ev) == Len(ev) + 1 \in BlockEnds(g, toks, ev, start, 1)

\* C2: soundness.  The calls execute makes for a tail are a parse tree of the
\* grammar: the outermost start names nt_start, and between each start(nt) and
\* its end the direct children are, in order, the components of one production
\* of nt, each term(i) standing for a literal the oracle accepted at i and each
\* nested block for the nonterminal the component names.
C2_Soundness == Executed => IsParseTree(G, tokens, nt_start, events)

\* a tree with a nested rule and a matched token has been streamed
C2_Witness ==
    /\ Executed
    /\ \E n \in 2..Len(events) : events[n].call = "start"
    /\ \E n \in 1..Len(events) : events[n].call = "term"

\* starts minus ends among the first n handler calls
Depth(ev, n) ==
    Cardinality({q \in 1..n : ev[q].call = "start"})
    - Cardinality({q \in 1..n : ev[q].call = "end"})

\* C3: over the calls of one execute the running depth (starts minus ends so
\* far) is never negative, is at least 1 at every term, and is 0 after the last.
C3_Balanced ==
    Executed =>
        /\ \A n \in 1..Len(events) :
              /\ Depth(events, n) >= 0
              /\ events[n].call = "term" => Depth(events, n) >= 1
        /\ Len(events) >= 2
        /\ Depth(events, Len(events)) = 0

\* a term has been streamed two rules deep
C3_Witness ==
    /\ Executed
    /\ \E n \in 1..Len(events) : events[n].call = "term" /\ Depth(events, n) >= 2

\* the end paired by nesting with the start at position n
PairedEnd(ev, n) ==
    CHOOSE q \in (n + 1)..Len(ev) :
        /\ ev[q].call = "end"
        /\ Depth(ev, q) = Depth(ev, n) - 1
        /\ \A r \in (n + 1)..(q - 1) : Depth(ev, r) >= Depth(ev, n)

Starts(ev) == {n \in 1..Len(ev) : ev[n].call = "start"}

\* C4 as claimed: the end paired with each start carries the same nt_name and
\* the same opt_name as that start, for every rule of the tree.
C4_SameNames ==
    Executed =>
        \A n \in Starts(events) :
            /\ events[PairedEnd(events, n)].ntname = events[n].ntname
            /\ events[PairedEnd(events, n)].xname = events[n].name

\* starts minus ends among ev[i..j]
Balance(ev, i, j) ==
    Cardinality({m \in i..j : ev[m].call = "start"})
        - Cardinality({m \in i..j : ev[m].call = "end"})

\* the end that closes the start at i
MatchingEnd(ev, i) ==
    CHOOSE j \in (i + 1)..Len(ev) :
        /\ Balance(ev, i, j) = 0
        /\ \A m \in i..(j - 1) : Balance(ev, i, m) > 0

\* the positions of the calls made directly inside the start at i, in order
Kids(ev, i) ==
    LET inside == {m \in (i + 1)..(MatchingEnd(ev, i) - 1) :
                      /\ ev[m].call \in {"start", "term"}
                      /\ Balance(ev, i, m - 1) = 1}
    IN [n \in 1..Cardinality(inside) |->
           CHOOSE m \in inside : Cardinality({x \in inside : x < m}) = n - 1]

\* the calls inside the start at i are those of production prod, component by
\* component, under the binding names of the components
TakenAt(ev, i, prod) ==
    LET kids == Kids(ev, i)
    IN /\ Len(kids) = Len(prod.components)
       /\ \A n \in 1..Len(kids) :
             LET com == prod.components[n]
                 call == ev[kids[n]]
             IN /\ call.name = com.name
                /\ IF com.rule.id = "Terminal"
                   THEN call.call = "term" /\ Nth(tokens, call.tokidx) = com.rule.s
                   ELSE call.call = "start" /\ call.ntname = com.rule.s

\* C4 as the code has it: the end paired with each start carries the same
\* nt_name; the opt_name is the same for the root (None on both), while the end
\* of a nested rule carries the label of the production that was taken (None
\* when it has no label), whatever binding name the start carried.
C4_SameNtName ==
    Executed =>
        \A n \in Starts(events) :
            /\ events[PairedEnd(events, n)].ntname = events[n].ntname
            /\ n = 1 => /\ events[n].name = None
                        /\ events[PairedEnd(events, n)].xname = None
            /\ n > 1 => \E prod \in Range(iter_over_nonterm(G, events[n].ntname)) :
                           /\ TakenAt(events, n, prod)
                           /\ events[PairedEnd(events, n)].xname = prod.name

\* a nested rule entered under a binding name has ended under another name
C4_Witness ==
    /\ Executed
    /\ \E n \in Starts(events) :
          /\ n > 1
          /\ IsSome(events[n].name)
          /\ events[PairedEnd(events, n)].xname # events[n].name

-----------------------------------------------------------------------------
(* Token order *)

\* the tok_idx values of the RuleTermValue fragments from the root to fragidx
TermIndexes(frags, fragidx) ==
    LET spine == Reverse(walk_back(frags, fragidx))
        terms == SelectSeq(spine, LAMBDA f : Nth(frags, f).value.type = "RuleTermValue")
    IN [n \in 1..Len(terms) |-> Nth(frags, terms[n]).value.tokidx]

UpTo(k) == [n \in 1..k |-> n - 1]

\* the tok_idx of the term calls of a stream
TermCalls(ev) ==
    LET terms == SelectSeq(ev, LAMBDA e : e.call = "term")
    IN [n \in 1..Len(terms) |-> terms[n].tokidx]

\* C5: the fragment chain of a thread that has consumed k tokens holds exactly k
\* RuleTermValue fragments, with tok_idx 0..k-1 from root to tail: k = tokidx
\* for every thread of the dispatch phase and every parked thread, tokidx + 1
\* for a thread the match phase has let pass; and for every tail (f, n) execute
\* makes exactly n term calls, for 0..n-1 in this order.
C5_TokenOrder ==
    /\ pc = "dispatch" =>
          \A n \in 1..Len(runnable) :
              TermIndexes(fragments, runnable[n].fragidx) = UpTo(tokidx)
    /\ pc = "match" =>
          \A n \in 1..Len(runnable) :
              TermIndexes(fragments, runnable[n].fragidx) = UpTo(tokidx + 1)
    /\ pc \in {"dispatch", "match"} =>
          /\ \A n \in 1..Len(matchable) :
                TermIndexes(fragments, matchable[n][2].fragidx) = UpTo(tokidx)
          /\ \A n \in 1..Len(tails) :
                TermIndexes(fragments, tails[n][1]) = UpTo(tails[n][2])
    /\ Returned =>
          \A n \in 1..Len(tails) :
              TermCalls(execute(parsed_trees, n - 1)) = UpTo(tails[n][2])

\* two tails were returned, one of them with two tokens or more
C5_Witness ==
    /\ Returned
    /\ \E n \in 1..Len(tails) : tails[n][2] >= 2
    /\ Len(tails) >= 2

-----------------------------------------------------------------------------
(* The oracle *)

\* C6: match_fn is invoked exactly once for a pair (value_idx v, token index i)
\* if a thread was parked at a Match on v during step i, and never otherwise;
\* during the match phase the cache holds the decisions of this step only.
C6_OncePerLiteralAndToken ==
    /\ \A a, b \in 1..Len(oracle_calls) : oracle_calls[a] = oracle_calls[b] => a = b
    /\ Range(oracle_calls) \subseteq parked
    /\ \A p \in parked :
          (p[2] < tokidx \/ Returned) => p \in Range(oracle_calls)
    /\ pc = "match" =>
          /\ \A v \in 0..(Len(cg.strings) - 1) :
                Nth(matched, v) # 0 <=> <<v, tokidx>> \in Range(oracle_calls)
          /\ \A p \in parked :
                p[2] = tokidx =>
                    (p \in Range(oracle_calls)
                        \/ \E n \in 1..Len(matchable) : matchable[n][1] = p[1])

\* a second thread parked on the same literal is about to be decided from the
\* cache, in a step after the first
C6_Witness ==
    /\ pc = "match"
    /\ tokidx >= 1
    /\ matchable # <<>>
    /\ Nth(matched, Last(matchable)[1]) # 0

-----------------------------------------------------------------------------
(* Two runs over the same tokens, the second compared with the first *)

\* what a caller can observe of a ParsedTrees, the grammar it came from, and a
\* note of how the run came by it
Outcome(g, pt, note) ==
    [G |-> g,
     note |-> note,
     count |-> count(pt),
     count_at_n |-> [n \in 0..(MaxTokens + 1) |-> count_at_n(pt, n)],
     streams |-> BagOf([n \in 1..count(pt) |-> execute(pt, n - 1)]),
     tails |-> BagOf(TailTrees(pt))]

\* the first run is kept, and compile_grammar and run start over on grammar g
start_over(g, note) ==
    /\ pc = "done"
    /\ runs = 0
    /\ prior' = Some(Outcome(G, parsed_trees, note))
    /\ runs' = 1
    /\ G' = g
    /\ cg' = CompiledGrammar_new
    /\ todo' = <<>>
    /\ pc' = "compile_grammar"
    /\ fragments' = <<>>
    /\ tails' = <<>>
    /\ runnable' = <<>>
    /\ matchable' = <<>>
    /\ freelist' = <<>>
    /\ shared_stack' = SharedStack_new
    /\ matched' = <<>>
    /\ prev_validx' = NIL
    /\ tokidx' = 0
    /\ oracle_calls' = <<>>
    /\ parked' = {}
    /\ UNCHANGED <<tokens, nt_start, min_match, debug_level, tidx_arg, memory, events>>

\* the same grammar text is compiled and run a second time; the string table of
\* the first compilation is noted
compile_and_run_again == start_over(G, cg.strings)

NextRecompile == Next \/ compile_and_run_again
SpecRecompile == Init /\ [][NextRecompile]_vars

SecondRunReturned == runs = 1 /\ Returned

\* C7: determinism.  For a fixed grammar and token sequence, count(),
\* count_at_n(n) for every n and the multiset of event streams over all tails
\* are the same for every compilation of the grammar, whatever order
\* compile_grammar enumerates the nonterminals in.
C7_Determinism ==
    (SecondRunReturned /\ Unwrap(prior).G = G) =>
        /\ count(parsed_trees) = Unwrap(prior).count
        /\ \A n \in 0..(MaxTokens + 1) :
              count_at_n(parsed_trees, n) = Unwrap(prior).count_at_n[n]
        /\ Outcome(G, parsed_trees, <<>>).streams = Unwrap(prior).streams

\* the second compilation visited the nonterminals in another order than the
\* first, so that the string tables differ, and the run found two trees or more
C7_Witness ==
    /\ SecondRunReturned
    /\ count(parsed_trees) >= 2
    /\ cg.strings # Unwrap(prior).note

-----------------------------------------------------------------------------
(* Any scheduling of the threads *)

\* the same grammar is compiled and run a second time; the tail the first run
\* recorded first is noted
tails_first(tls) == IF tls = <<>> THEN <<>> ELSE <<tls[1]>>
run_again == start_over(G, tails_first(tails))

\* run with any thread taken from runnable and any parked thread taken from
\* matchable (the assertion on the sorted order of matchable left out)
NextSched ==
    \/ compile_grammar_begin
    \/ compile_grammar_production
    \/ run_begin
    \/ \E t \in 1..Len(runnable) : dispatch_Match(t)
    \/ \E t \in 1..Len(runnable) : dispatch_Fork(t)
    \/ \E t \in 1..Len(runnable) : dispatch_Return(t)
    \/ \E t \in 1..Len(runnable) : dispatch_Return_top(t)
    \/ match_phase_begin
    \/ \E m \in 1..Len(matchable) : match_thread(m, FALSE)
    \/ match_phase_end
    \/ execute_tree
    \/ run_again

SpecSched == Init /\ [][NextSched]_vars

\* C8: scheduling independence.  Whatever order the dispatch loop takes threads
\* from runnable in and whatever order the match phase takes the parked threads
\* in, the final multiset of tails, each taken as (derivation, tokens_consumed),
\* is the same; only the order of tails and the arena indices may differ.
C8_SchedulingIndependence ==
    SecondRunReturned => BagOf(TailTrees(parsed_trees)) = Unwrap(prior).tails

\* two runs found two trees or more, and the tails they recorded first differ:
\* in the order of the tails or in the arena cells
C8_Witness ==
    /\ SecondRunReturned
    /\ count(parsed_trees) >= 2
    /\ tails_first(tails) # Unwrap(prior).note

-----------------------------------------------------------------------------
(* A production added where the start nonterminal cannot reach it *)

\* the nonterminals a production of one of S refers to
Refers(g, S) ==
    {c.rule.s : c \in {c \in UNION {Range(p.components) :
                                      p \in UNION {Range(ProdsOf(g, nt)) : nt \in S}} :
                          c.rule.id = "Nonterminal"}}

RECURSIVE Reach(_, _)
Reach(g, S) ==
    LET S1 == S \cup Refers(g, S)
    IN IF S1 = S THEN S ELSE Reach(g, S1)

\* the productions tried as additions: empty, the literal of the first token,
\* a call of the start nonterminal, a labelled call of itself
Additions(g, nt, start, toks) ==
    {P(<<>>), P(<<N(start)>>), Pl(<<Nb(nt, "u"), T("u")>>, "ul")}
    \cup {P(<<T(toks[n])>>) : n \in {1} \cap DOMAIN toks}

\* add_rule on a nonterminal out of reach of nt_start, new or not, and a second run
add_unreachable_production ==
    \E nt \in ((NontermNames(G) \cup {"U"}) \ Reach(G, {nt_start})) :
        \E prod \in Additions(G, nt, nt_start, tokens) :
            start_over(add_rule(G, nt, prod), <<>>)

NextExtend == Next \/ add_unreachable_production
SpecExtend == Init /\ [][NextExtend]_vars

\* C9: adding to the grammar a production of a nonterminal that nt_start does
\* not reach changes neither count() nor count_at_n(n) nor the multiset of the
\* event streams execute produces over all tails.
C9_UnreachableProduction ==
    (SecondRunReturned /\ Unwrap(prior).G # G) =>
        /\ count(parsed_trees) = Unwrap(prior).count
        /\ Outcome(G, parsed_trees, <<>>).count_at_n = Unwrap(prior).count_at_n
        /\ Outcome(G, parsed_trees, <<>>).streams = Unwrap(prior).streams

\* the grammar has one production more than in the first run, and trees were found
C9_Witness ==
    /\ SecondRunReturned
    /\ G.prod_seq_no = Unwrap(prior).G.prod_seq_no + 1
    /\ count(parsed_trees) >= 2

-----------------------------------------------------------------------------
(* Every grammar, left-recursive ones included *)

\* the room a vector has as it grows from empty, push after push: four elements
\* at first, then twice what it had (the arena is the Vec of line 254, lines 280,
\* 356, 400 and 478 push to it); the rooms of up to MaxArena fragments
RECURSIVE capacities(_)
capacities(cap) ==
    IF cap > MaxArena THEN {} ELSE {cap} \cup capacities(2 * cap)
Capacities == capacities(4)

\* the next step asks the allocator for memory, or may do so: the vector of
\* g.nonterminals() (compiler.rs line 147), the tables and opcodes of a
\* production (lines 149-164), matched (vm.rs line 247), matchable.insert (line
\* 333), fragments.push when no fragment is free (lines 356, 400 and 478), the
\* shared-stack items and runnable.push of a Fork (lines 370-376), the
\* runnable.push of a matched thread (line 484), tails.push (line 414),
\* freelist.insert (line 494), cg.strings.clone() when run returns (line 522)
\* and the indexes of execute (lines 212-214).  The thread a nested Return
\* pushes (line 409) takes the place of the one popped at line 298.  A panic
\* asks for memory as well: the unwrap of line 271, the assertions of lines 434
\* and 488, the panic of line 507 and the index of line 204; so run's first
\* step allocates whatever the string table, and so does every call of execute.
allocates ==
    \/ pc \in {"compile_grammar", "compiling", "run", "done"}
    \/ /\ pc = "dispatch"
       /\ runnable # <<>>
       /\ LET thread == Last(runnable)
              opcode == at(cg, thread.ip)
          IN \/ opcode.op = "Match"
             \/ /\ opcode.op = "Fork"
                /\ freelist = <<>> \/ lookup_nonterm_idx(cg, opcode.ntidx) # <<>>
             \/ /\ opcode.op = "Return"
                /\ IF thread.sp # NIL THEN freelist = <<>> ELSE tokidx >= min_match
    \/ /\ pc = "match"
       /\ matchable # <<>>
       /\ LET tuple == Last(matchable)
              opcode == at(cg, tuple[2].ip)
          IN \/ ~(prev_validx = NIL \/ prev_validx <= tuple[1])
             \/ opcode.op # "Match"
             \/ match_decision(matched, tokens, cg.strings, opcode.validx, tokidx).result
             \/ release(fragments, freelist, tuple[2].fragidx).freelist # freelist
             \/ ~release(fragments, freelist, tuple[2].fragidx).ok
    \/ /\ pc = "match"
       /\ matchable = <<>>
       /\ runnable = <<>>
       /\ cg.strings # <<>>

\* neither compile_grammar nor run nor execute handles a refused allocation:
\* whether the allocator grants a request depends on the process, and when it
\* does not the process is aborted there
out_of_memory ==
    /\ allocates
    /\ pc' = "abort"
    /\ UNCHANGED <<input_vars, cg, todo, run_vars, log_vars, events, prior, runs>>

\* every grammar, in a process of any of the memories Capacities
InitAll ==
    /\ G \in AllGrammars
    /\ tokens \in TokenSeqs(G)
    /\ nt_start \in NontermNames(G)
    /\ pc = "compile_grammar"
    /\ memory \in {Some(cap) : cap \in Capacities}
    /\ InitRest

\* compile_grammar, run and execute as coded and built, in a process of limited
\* memory: the allocator has room for an arena of memory fragments and refuses
\* to let it grow beyond, so that a step that stores a fragment takes place when
\* the arena fits, and any step that allocates may abort the process instead;
\* execute is called with any tidx, up to MaxTidx beyond the trees there are
NextAll ==
    \/ compile_grammar_begin
    \/ compile_grammar_production
    \/ run_begin /\ Len(fragments') <= Unwrap(memory)
    \/ \E t \in {Len(runnable)} : dispatch_Match_by(t, TRUE)
    \/ \E t \in {Len(runnable)} : dispatch_Fork(t) /\ Len(fragments') <= Unwrap(memory)
    \/ \E t \in {Len(runnable)} : dispatch_Return(t) /\ Len(fragments') <= Unwrap(memory)
    \/ \E t \in {Len(runnable)} : dispatch_Return_top(t)
    \/ match_phase_begin
    \/ \E m \in {Len(matchable)} : match_thread(m, TRUE) /\ Len(fragments') <= Unwrap(memory)
    \/ match_phase_end
    \/ \E tidx \in 0..(count(parsed_trees) + MaxTidx) : execute_call(tidx)
    \/ out_of_memory

SpecAll == InitAll /\ [][NextAll]_vars

\* run is one sequential loop: from its call until it returns or the process is
\* aborted, its next step is taken
SpecAllFair == SpecAll /\ WF_vars(pc \in {"run", "dispatch", "match"} /\ NextAll)

\* the largest of the memories
LargestMemory == CHOOSE cap \in Capacities : \A other \in Capacities : other <= cap

\* the process was aborted while its arena still had room to grow
AbortedWithRoom == pc = "abort" /\ Len(fragments) < Unwrap(memory)

\* the triples <<nt, i, j>> with nt deriving tokens[i..j), as a least fixed point
RECURSIVE EndsOf(_, _, _, _, _, _)
EndsOf(g, toks, known, coms, ci, i) ==
    IF ci > Len(coms) THEN {i}
    ELSE IF coms[ci].rule.id = "Terminal"
    THEN IF match_fn(toks, coms[ci].rule.s, i)
         THEN EndsOf(g, toks, known, coms, ci + 1, i + 1)
         ELSE {}
    ELSE UNION {EndsOf(g, toks, known, coms, ci + 1, j) :
                   j \in {j \in i..Len(toks) : <<coms[ci].rule.s, i, j>> \in known}}

RECURSIVE SpansFrom(_, _, _)
SpansFrom(g, toks, known) ==
    LET more == {x \in NontermNames(g) \X (0..Len(toks)) \X (0..Len(toks)) :
                    \E prod \in Range(ProdsOf(g, x[1])) :
                        x[3] \in EndsOf(g, toks, known, prod.components, 1, x[2])}
    IN IF more \subseteq known THEN known ELSE SpansFrom(g, toks, known \cup more)

\* no derivation of start matches a prefix of toks of length min or more
NoDerivation(g, toks, start, min) ==
    \A k \in min..Len(toks) : <<start, 0, k>> \notin SpansFrom(g, toks, {})

\* under SpecAll: the arena of a run that does not enter a left recursion never
\* fills the largest memory
OtherRunsFit == ~LeftRecursiveFrom(G, nt_start) => Len(fragments) < LargestMemory

-----------------------------------------------------------------------------
(* The same compiled grammar run with min_match 0 and then with min_match m *)

\* run is called a second time on the same CompiledGrammar and tokens, with
\* another min_match; the first call had min_match 0
run_again_with_min_match ==
    /\ pc = "done"
    /\ runs = 0
    /\ min_match = 0
    /\ prior' = Some(Outcome(G, parsed_trees, tails))
    /\ runs' = 1
    /\ min_match' \in 0..MaxMinMatch
    /\ pc' = "run"
    /\ oracle_calls' = <<>>
    /\ parked' = {}
    /\ UNCHANGED <<G, tokens, nt_start, debug_level, tidx_arg, memory, cg, todo, run_vars,
                   events>>

NextMinMatch == Next \/ run_again_with_min_match
SpecMinMatch == Init /\ [][NextMinMatch]_vars

\* the part of bag b whose trees consumed m tokens or more
AtLeast(b, m) == [x \in {y \in DOMAIN b : y.k >= m} |-> b[x]]

\* the thread run takes next is at a Return and has no return address
AtTopReturn ==
    /\ pc = "dispatch"
    /\ runnable # <<>>
    /\ at(cg, Last(runnable).ip).op = "Return"
    /\ Last(runnable).sp = NIL

\* the tails of a second run with min_match m are those of the first with
\* tokens_consumed >= m
FilteredTails ==
    SecondRunReturned =>
        /\ BagOf(TailTrees(parsed_trees)) = AtLeast(Unwrap(prior).tails, min_match)
        /\ count(parsed_trees) = Unwrap(prior).count_at_n[min_match]

\* C11: min_match only filters.  A thread that executes Return without a return
\* address at token index k is recorded as tail (fragidx, k) iff k >= min_match,
\* and is dropped either way, no fragment freed and no other thread touched; no
\* tail has tokens_consumed < min_match; and the tails of run(.., m) are those
\* of run(.., 0) with tokens_consumed >= m, so that run(.., m).count() =
\* run(.., 0).count_at_n(m).
C11_MinMatchFilters ==
    /\ [](pc \in {"dispatch", "match", "done", "executed"} =>
            \A n \in 1..Len(tails) : tails[n][2] >= min_match)
    /\ []FilteredTails
    /\ [][AtTopReturn =>
            /\ tails' = IF tokidx >= min_match
                        THEN Append(tails, <<Last(runnable).fragidx, tokidx>>)
                        ELSE tails
            /\ runnable' = Front(runnable)
            /\ UNCHANGED <<fragments, freelist, matchable, shared_stack, tokidx>>]_vars

\* a second run with min_match 2 has returned fewer trees than the first, which
\* had found some of fewer than 2 tokens
C11_Witness ==
    /\ SecondRunReturned
    /\ min_match = 2
    /\ count(parsed_trees) >= 1
    /\ count(parsed_trees) < Unwrap(prior).count

-----------------------------------------------------------------------------
(* count and count_at_n *)

\* C12: count() is the number of recorded tails and count_at_n(n) the number of
\* tails with tokens_consumed >= n; hence count_at_n(0) = count(), count_at_n
\* is non-increasing in n and is 0 for n above the largest tokens_consumed.
\* Both are reads of the tails list.
C12_Counts ==
    Returned =>
        /\ count(parsed_trees) = Len(tails)
        /\ count_at_n(parsed_trees, 0) = count(parsed_trees)
        /\ \A n \in 0..(MaxTokens + 2) :
              /\ count_at_n(parsed_trees, n)
                    = Len(SelectSeq(tails, LAMBDA tail : tail[2] >= n))
              /\ count_at_n(parsed_trees, n + 1) <= count_at_n(parsed_trees, n)
              /\ (\A i \in 1..Len(tails) : tails[i][2] < n)
                    => count_at_n(parsed_trees, n) = 0

\* three tails or more, some but not all of them with a token or more
C12_Witness ==
    /\ Returned
    /\ count(parsed_trees) >= 3
    /\ count_at_n(parsed_trees, 1) > 0
    /\ count_at_n(parsed_trees, 1) < count(parsed_trees)
    /\ count_at_n(parsed_trees, 2) < count_at_n(parsed_trees, 1)

-----------------------------------------------------------------------------
(* Termination *)

\* run is one sequential loop: from its call to its return, its next step is
\* taken
SpecFair == Init /\ [][Next]_vars /\ WF_vars(pc \in {"run", "dispatch", "match"} /\ Next)

\* C13: for a grammar without left recursion and tokens of length N (the oracle
\* is false from index N on), run terminates: every dispatch phase ends, the
\* outer loop is left after at most N+1 turns, and match_fn is never called
\* with a token index above N.
C13_Termination ==
    /\ (pc = "run") ~> Returned
    /\ (pc = "dispatch") ~> (pc = "match")
    /\ [](pc \in {"dispatch", "match"} => tokidx <= Len(tokens))
    /\ [](Returned => tokidx <= Len(tokens) + 1)
    /\ [](\A n \in 1..Len(oracle_calls) : oracle_calls[n][2] <= Len(tokens))

\* a run that took all of its N+1 turns, asking the oracle about index N
C13_Witness ==
    /\ Returned
    /\ Len(tokens) = MaxTokens
    /\ tokidx = Len(tokens) + 1
    /\ \E n \in 1..Len(oracle_calls) : oracle_calls[n][2] = Len(tokens)

-----------------------------------------------------------------------------
(* The repository's tests, the recursive ones for every repetition count up   *)
(* to MaxRepeat                                                                *)

Repeat(s, k) == [n \in 1..k |-> s]

rec_grammar_test(k) ==
    [G |-> GRec, nt_start |-> "R", tokens |-> Append(Repeat("a", k), "b")]
empty_nt_test == [G |-> GEmptyNt, nt_start |-> "Z", tokens |-> Repeat("a", 4)]
empty2_nt_test == [G |-> GEmpty2Nt, nt_start |-> "X", tokens |-> Repeat("a", 4)]
rec2_grammar_test(k) ==
    [G |-> GTail, nt_start |-> "Q", tokens |-> Append(Repeat("a", k), "w")]

TestRuns == {rec_grammar_test(k) : k \in 0..MaxRepeat}
            \cup {empty_nt_test, empty2_nt_test}
            \cup {rec2_grammar_test(k) : k \in 0..MaxRepeat}

RunsTest(test) == G = test.G /\ nt_start = test.nt_start /\ tokens = test.tokens

InitTests ==
    /\ \E test \in TestRuns : RunsTest(test)
    /\ min_match = 0
    /\ debug_level = 0
    /\ tidx_arg = 0
    /\ cg = CompiledGrammar_new
    /\ todo = <<>>
    /\ pc = "compile_grammar"
    /\ fragments = <<>>
    /\ tails = <<>>
    /\ runnable = <<>>
    /\ matchable = <<>>
    /\ freelist = <<>>
    /\ shared_stack = SharedStack_new
    /\ matched = <<>>
    /\ prev_validx = NIL
    /\ tokidx = 0
    /\ oracle_calls = <<>>
    /\ parked = {}
    /\ events = <<>>
    /\ prior = None
    /\ runs = 0
    /\ memory = None

SpecTests == InitTests /\ [][Next]_vars

\* the deepest nesting of starts over the calls of one execute
MaxDepth(ev) ==
    CHOOSE d \in 0..Len(ev) :
        /\ \A n \in 1..Len(ev) : Depth(ev, n) <= d
        /\ ev # <<>> => \E n \in 1..Len(ev) : Depth(ev, n) = d

\* C14: R : 'a' R | 'b' on a^k b gives one tree, which consumed k+1 tokens and
\* whose execute nests starts exactly k+1 deep; the oracle is never asked about
\* an index past the last token.
C14_RecGrammar ==
    \A k \in 0..MaxRepeat :
        RunsTest(rec_grammar_test(k)) =>
            /\ \A n \in 1..Len(oracle_calls) : oracle_calls[n][2] < Len(tokens)
            /\ Returned => /\ count(parsed_trees) = 1
                           /\ tails[1][2] = k + 1
            /\ Executed => MaxDepth(events) = k + 1

\* [a,a,a,a,b] executed
C14_Witness ==
    /\ RunsTest(rec_grammar_test(4))
    /\ Executed
    /\ MaxDepth(events) = 5

-----------------------------------------------------------------------------
(* Empty productions *)

RunsEmptyTest == RunsTest(empty_nt_test) \/ RunsTest(empty2_nt_test)

\* the calls of one rule without names around the calls of its components
RuleOf(nt, body) == <<start_call(nt, None)>> \o body \o <<end_call(nt, None)>>
A_at(tok) == RuleOf("A", <<term_call(tok, None)>>)
\* A E A A A over four tokens, E empty
EmptyTestTree(root) ==
    RuleOf(root, A_at(0) \o RuleOf("E", <<>>) \o A_at(1) \o A_at(2) \o A_at(3))

E_idx == Unwrap(lookup_string(cg, "E"))
\* the thread stands at the Return that is the whole of E's empty production
AtEmptyProduction(thread) ==
    /\ at(cg, thread.ip).op = "Return"
    /\ \E n \in 1..Len(lookup_nonterm_idx(cg, E_idx)) :
          lookup_nonterm_idx(cg, E_idx)[n] = thread.ip
Threads == Range(runnable) \cup {matchable[n][2] : n \in 1..Len(matchable)}

\* every thread at E's empty production is in a dispatch phase, holding the
\* RuleStart of the Fork of E
EmptyProductionForked ==
    (RunsEmptyTest /\ pc \in {"dispatch", "match", "done", "executed"}) =>
        \A thread \in Threads :
            AtEmptyProduction(thread) =>
                /\ pc = "dispatch"
                /\ thread.sp # NIL
                /\ Nth(fragments, thread.fragidx).value.type = "RuleStart"
                /\ Nth(fragments, thread.fragidx).value.ntname = E_idx
                /\ at(cg, top(shared_stack, thread.sp)) =
                      [op |-> "Fork", ntidx |-> E_idx, nameidx |-> None]

\* the Return of E's empty production: the thread goes on after the Fork in the
\* same dispatch phase, on a RuleNonTerm whose child is the Fork's RuleStart
EmptyProductionReturns ==
    (RunsEmptyTest /\ pc = "dispatch" /\ runnable # <<>>
                   /\ AtEmptyProduction(Last(runnable))) =>
        LET thread == Last(runnable)
            resumed == Last(runnable')
        IN /\ pc' = "dispatch"
           /\ tokidx' = tokidx
           /\ Len(runnable') = Len(runnable)
           /\ resumed.ip = top(shared_stack, thread.sp) + 1
           /\ Nth(fragments', resumed.fragidx).value
                 = RuleNonTerm(thread.fragidx, E_idx, None)
           /\ Nth(fragments', thread.fragidx) = Nth(fragments, thread.fragidx)
           /\ UNCHANGED <<matchable, tails, oracle_calls, parked>>

\* C15: with A : 'a' and Z : A E A A A, E empty or E : 'e' | ;, run on [a,a,a,a]
\* gives one tree.  The thread on E's empty production returns in the dispatch
\* phase of its Fork and leaves a RuleNonTerm whose child is the Fork's
\* RuleStart; the Match after E is tested against the token index at which E
\* was entered, so the terms of the tree are at 0, 1, 2, 3 and E has no child.
C15_EmptyProduction ==
    /\ []EmptyProductionForked
    /\ [][EmptyProductionReturns]_vars
    /\ []((RunsEmptyTest /\ Returned) =>
             /\ count(parsed_trees) = 1
             /\ tails[1][2] = 4
             /\ <<Unwrap(lookup_string(cg, "a")), 1>> \in parked
             /\ \A c \in parked : c[2] <= 3)
    /\ []((RunsEmptyTest /\ Executed) => events = EmptyTestTree(nt_start))

\* the tree of E : 'e' | ; has been streamed, after the oracle refused 'e' at 1
C15_Witness ==
    /\ RunsTest(empty2_nt_test)
    /\ Executed
    /\ events = EmptyTestTree("X")
    /\ \E n \in 1..Len(oracle_calls) :
          oracle_calls[n] = <<Unwrap(lookup_string(cg, "e")), 1>>

-----------------------------------------------------------------------------
(* rec2_grammar_test *)

\* C16: A : 'w'; Q : 'a' Q | ; started at Q on a^k w: one tail consumes the k
\* leading a's and none consumes more (count_at_n(k) = 1, count_at_n(k+1) = 0),
\* and the 'w' is never matched: the oracle is asked about 'a' only, and no
\* term of a fragment is at index k.
C16_Rec2Grammar ==
    \A k \in 0..MaxRepeat :
        (RunsTest(rec2_grammar_test(k))
           /\ pc \in {"dispatch", "match", "done", "executed"}) =>
            /\ \A n \in 1..Len(oracle_calls) :
                  /\ Nth(cg.strings, oracle_calls[n][1]) = "a"
                  /\ oracle_calls[n][2] <= k
            /\ \A n \in 1..Len(fragments) :
                  fragments[n].value.type = "RuleTermValue"
                      => fragments[n].value.tokidx < k
            /\ Returned =>
                  /\ count_at_n(parsed_trees, k) = 1
                  /\ count_at_n(parsed_trees, k + 1) = 0
                  /\ \A n \in 0..k : count_at_n(parsed_trees, n) = k + 1 - n

\* the longest input has been run, the oracle having refused 'a' for the 'w'
C16_Witness ==
    /\ RunsTest(rec2_grammar_test(MaxRepeat))
    /\ Returned
    /\ count_at_n(parsed_trees, MaxRepeat) = 1
    /\ \E n \in 1..Len(oracle_calls) : oracle_calls[n][2] = MaxRepeat

-----------------------------------------------------------------------------
(* S : 'a' S 'a' | 'a' on [a,a,a] *)

RunsPalindrome ==
    /\ G = GPalindrome
    /\ nt_start = "S"
    /\ tokens = <<"a", "a", "a">>
    /\ Returned

\* C17 as stated: with min_match 0 the run returns one tail, which consumed the
\* three tokens.
C17_PalindromeOneTail ==
    (RunsPalindrome /\ min_match = 0) =>
        /\ count(parsed_trees) = 1
        /\ tails[1][2] = 3

\* C17: with min_match 0 the run returns two tails, S : 'a' over the first token
\* and S : 'a' S 'a' over the three; one tail has tokens_consumed = 3, and it is
\* the only tail when min_match is 2.
C17_PalindromeTails ==
    RunsPalindrome =>
        /\ count_at_n(parsed_trees, 3) = 1
        /\ count_at_n(parsed_trees, 2) = 1
        /\ min_match = 0 =>
              /\ count(parsed_trees) = 2
              /\ {tails[n][2] : n \in 1..Len(tails)} = {1, 3}
        /\ min_match = 1 => count(parsed_trees) = 2
        /\ min_match = 2 => count(parsed_trees) = 1 /\ tails[1][2] = 3
        /\ Executed => TermCalls(events) \in {<<0>>, <<0, 1, 2>>}

\* the tree over the three tokens has been streamed from the run with min_match 0
C17_Witness ==
    /\ RunsPalindrome
    /\ min_match = 0
    /\ count(parsed_trees) = 2
    /\ Executed
    /\ TermCalls(events) = <<0, 1, 2>>

-----------------------------------------------------------------------------
(* PARSERDEBUG *)

\* the environment variable: None when unset, else its text, one character per
\* element
\* usize::MAX of a 64-bit target, 18446744073709551615, in decimal digits
usize_MAX == <<"1", "8", "4", "4", "6", "7", "4", "4", "0", "7",
               "3", "7", "0", "9", "5", "5", "1", "6", "1", "5">>

EnvTexts == {None, Some(<<>>), Some(<<"x">>), Some(<<"-", "1">>), Some(<<"+">>),
             Some(<<"0">>), Some(<<"+", "4">>), Some(<<"5">>), Some(<<"1", "0">>),
             Some(<<"0", "0", "5">>),
             Some([n \in 1..20 |-> IF n = 20 THEN "6" ELSE usize_MAX[n]]),
             Some([n \in 1..20 |-> "9"])}

Digits == <<"0", "1", "2", "3", "4", "5", "6", "7", "8", "9">>
digit_value(ch) == (CHOOSE n \in 1..Len(Digits) : Digits[n] = ch) - 1
RECURSIVE digits_value(_, _)
digits_value(text, acc) ==
    IF text = <<>> THEN acc
    ELSE digits_value(Tail(text), 10 * acc + digit_value(Head(text)))

\* the decimal number d is above the decimal number e, neither with a leading 0
RECURSIVE digits_above(_, _)
digits_above(d, e) ==
    IF Len(d) # Len(e) THEN Len(d) > Len(e)
    ELSE IF d = <<>> THEN FALSE
    ELSE IF Head(d) # Head(e) THEN digit_value(Head(d)) > digit_value(Head(e))
    ELSE digits_above(Tail(d), Tail(e))

RECURSIVE strip_zeros(_)
strip_zeros(d) == IF d # <<>> /\ Head(d) = "0" THEN strip_zeros(Tail(d)) ELSE d

\* str::parse::<usize>: an optional '+', then one decimal digit or more, of a
\* value that fits usize; a value above usize::MAX is Err(PosOverflow)
parse_usize(text) ==
    LET digits == IF text # <<>> /\ Head(text) = "+" THEN Tail(text) ELSE text
    IN IF digits = <<>> \/ \E n \in 1..Len(digits) : digits[n] \notin Range(Digits)
       THEN None
       ELSE IF digits_above(strip_zeros(digits), usize_MAX)
       THEN None
       ELSE Some(digits_value(digits, 0))

\* run, lines 234-245
parse_debug_level(env) ==
    IF IsSome(env)
    THEN IF IsSome(parse_usize(Unwrap(env))) THEN Unwrap(parse_usize(Unwrap(env))) ELSE 0
    ELSE 0

DebugLevels == {parse_debug_level(env) : env \in EnvTexts}

\* debug_lookup reading the string after the one asked for
debug_lookup_next(c, idx) ==
    IF idx + 1 < Len(c.strings) THEN Some(Nth(c.strings, idx + 1)) ELSE None

\* CompiledGrammar::debug_lookup: strings[idx].clone(), None for the panic of an
\* index out of range
debug_lookup(c, idx) ==
    IF idx < Len(c.strings) THEN Some(Nth(c.strings, idx)) ELSE None

\* nameidx.map_or("".to_string(), |x| cg.debug_lookup(x))
debug_lookup_opt(c, nameidx) ==
    IF IsSome(nameidx) THEN debug_lookup(c, Unwrap(nameidx)) ELSE Some("")

\* run, lines 297-327: the trace of the instruction about to be run is printed
\* (TRUE) unless a lookup panics (FALSE)
debug_instruction(d, c, thread) ==
    LET opcode == at(c, thread.ip)
    IN d > 3 =>
          CASE opcode.op = "Match" -> IsSome(debug_lookup(c, opcode.validx))
            [] opcode.op = "Fork" -> /\ IsSome(debug_lookup(c, opcode.ntidx))
                                     /\ IsSome(debug_lookup_opt(c, opcode.nameidx))
            [] opcode.op = "Return" -> /\ IsSome(debug_lookup(c, opcode.ntnameidx))
                                       /\ IsSome(debug_lookup_opt(c, opcode.nameidx))

\* run, lines 362-367: the trace of each child thread of a Fork
debug_forking(d, c, thread) ==
    (d > 4 /\ lookup_nonterm_idx(c, at(c, thread.ip).ntidx) # <<>>)
        => IsSome(debug_lookup(c, at(c, thread.ip).ntidx))

\* a panic while tracing the thread popped from runnable
debug_panic(t) ==
    /\ pc' = "panic"
    /\ runnable' = RemoveAt(runnable, t)
    /\ UNCHANGED <<input_vars, cg, todo, fragments, tails, matchable, freelist,
                   shared_stack, matched, prev_validx, tokidx, log_vars, events,
                   prior, runs>>

\* the arms of the dispatch loop at debug level d
debug_dispatch_Match(d, t) ==
    /\ pc = "dispatch"
    /\ t \in 1..Len(runnable)
    /\ at(cg, runnable[t].ip).op = "Match"
    /\ IF debug_instruction(d, cg, runnable[t])
       THEN dispatch_Match(t)
       ELSE debug_panic(t)
debug_dispatch_Fork(d, t) ==
    /\ pc = "dispatch"
    /\ t \in 1..Len(runnable)
    /\ at(cg, runnable[t].ip).op = "Fork"
    /\ IF debug_instruction(d, cg, runnable[t]) /\ debug_forking(d, cg, runnable[t])
       THEN dispatch_Fork(t)
       ELSE debug_panic(t)
debug_dispatch_Return(d, t) ==
    /\ pc = "dispatch"
    /\ t \in 1..Len(runnable)
    /\ at(cg, runnable[t].ip).op = "Return"
    /\ runnable[t].sp # NIL
    /\ IF debug_instruction(d, cg, runnable[t])
       THEN dispatch_Return(t)
       ELSE debug_panic(t)
debug_dispatch_Return_top(d, t) ==
    /\ pc = "dispatch"
    /\ t \in 1..Len(runnable)
    /\ at(cg, runnable[t].ip).op = "Return"
    /\ runnable[t].sp = NIL
    /\ IF debug_instruction(d, cg, runnable[t])
       THEN dispatch_Return_top(t)
       ELSE debug_panic(t)

\* the steps of the program at debug level d; the traces of lines 292, 426 and
\* 516 print counters only
NextAt(d) ==
    \/ compile_grammar_begin
    \/ compile_grammar_production
    \/ run_begin
    \/ \E t \in {Len(runnable)} : debug_dispatch_Match(d, t)
    \/ \E t \in {Len(runnable)} : debug_dispatch_Fork(d, t)
    \/ \E t \in {Len(runnable)} : debug_dispatch_Return(d, t)
    \/ \E t \in {Len(runnable)} : debug_dispatch_Return_top(d, t)
    \/ match_phase_begin
    \/ \E m \in {Len(matchable)} : match_thread(m, TRUE)
    \/ match_phase_end
    \/ execute_tree

InitDebug ==
    /\ G \in Grammars
    /\ tokens \in TokenSeqs(G)
    /\ nt_start \in NontermNames(G)
    /\ min_match \in 0..MaxMinMatch
    /\ debug_level \in DebugLevels
    /\ tidx_arg = 0
    /\ cg = CompiledGrammar_new
    /\ todo = <<>>
    /\ pc = "compile_grammar"
    /\ fragments = <<>>
    /\ tails = <<>>
    /\ runnable = <<>>
    /\ matchable = <<>>
    /\ freelist = <<>>
    /\ shared_stack = SharedStack_new
    /\ matched = <<>>
    /\ prev_validx = NIL
    /\ tokidx = 0
    /\ oracle_calls = <<>>
    /\ parked = {}
    /\ events = <<>>
    /\ prior = None
    /\ runs = 0
    /\ memory = None

NextDebug == NextAt(debug_level)
SpecDebug == InitDebug /\ [][NextDebug]_vars

\* C18: PARSERDEBUG does not affect the parse.  Unset or unparsable text is
\* level 0; no trace panics; and every step the program takes at its debug level
\* is the step it takes at every other level, so that from the same grammar,
\* oracle and min_match the runs go through the same worklist, arena, stack and
\* tails states, make the same match_fn calls and return equal ParsedTrees.
C18_DebugLevel ==
    /\ [](\A env \in EnvTexts :
             (~IsSome(env) \/ ~IsSome(parse_usize(Unwrap(env))))
                 => parse_debug_level(env) = 0)
    /\ [](pc # "panic")
    /\ [][\A d \in DebugLevels : NextAt(d)]_vars

\* a run traced at every instruction and every fork has returned a tree
C18_Witness ==
    /\ Returned
    /\ debug_level > 4
    /\ count(parsed_trees) >= 1
    /\ \E n \in 1..Len(fragments) : fragments[n].value.type = "RuleNonTerm"

-----------------------------------------------------------------------------
(* execute with any tree index *)

\* ParsedTrees::execute with the caller's tidx
execute_any == execute_call(tidx_arg)

InitExecute ==
    /\ G \in Grammars
    /\ tokens \in TokenSeqs(G)
    /\ nt_start \in NontermNames(G)
    /\ min_match \in 0..MaxMinMatch
    /\ debug_level = 0
    /\ tidx_arg \in 0..MaxTidx
    /\ cg = CompiledGrammar_new
    /\ todo = <<>>
    /\ pc = "compile_grammar"
    /\ fragments = <<>>
    /\ tails = <<>>
    /\ runnable = <<>>
    /\ matchable = <<>>
    /\ freelist = <<>>
    /\ shared_stack = SharedStack_new
    /\ matched = <<>>
    /\ prev_validx = NIL
    /\ tokidx = 0
    /\ oracle_calls = <<>>
    /\ parked = {}
    /\ events = <<>>
    /\ prior = None
    /\ runs = 0
    /\ memory = None

NextExecute ==
    \/ compile_grammar_begin
    \/ compile_grammar_production
    \/ run_begin
    \/ \E t \in {Len(runnable)} : dispatch_Match(t)
    \/ \E t \in {Len(runnable)} : dispatch_Fork(t)
    \/ \E t \in {Len(runnable)} : dispatch_Return(t)
    \/ \E t \in {Len(runnable)} : dispatch_Return_top(t)
    \/ match_phase_begin
    \/ \E m \in {Len(matchable)} : match_thread(m, TRUE)
    \/ match_phase_end
    \/ execute_any

SpecExecute == InitExecute /\ [][NextExecute]_vars

\* C19: execute(tidx, handler) with tidx >= count() panics on the tails index:
\* no handler operation has been called and no fragment read.  With
\* tidx < count() it does not panic and streams that tree.
C19_ExecuteOutOfRange ==
    /\ (pc = "done" /\ tidx_arg >= count(parsed_trees)) =>
          execute_at(parsed_trees, tidx_arg)
              = [panic |-> TRUE, events |-> <<>>, fragments_read |-> <<>>]
    /\ pc = "panic" => tidx_arg >= count(parsed_trees) /\ events = <<>>
    /\ pc = "executed" =>
          /\ tidx_arg < count(parsed_trees)
          /\ events = execute(parsed_trees, tidx_arg)
          /\ Len(events) >= 2

\* execute has panicked on the index just past the last of two tails or more
C19_Witness ==
    /\ pc = "panic"
    /\ count(parsed_trees) >= 2
    /\ tidx_arg = count(parsed_trees)

-----------------------------------------------------------------------------
(* The layout of the compiled program *)

\* load_grammar_str is about to resolve the rules it has read (line 321) or has
\* panicked there: every component of G is still a Terminal of its text
Unresolved == pc = "resolve" \/ (pc = "panic" /\ cg = CompiledGrammar_new)

\* the grammars of Init, and the texts of TextRules before resolve
InitCompile ==
    \/ InitWith(Grammars)
    \/ /\ \E rules \in TextRules : G = load_rules(Grammar_new, rules, 1)
       /\ tokens \in IF IsSome(resolve(G)) THEN TokenSeqs(Unwrap(resolve(G)))
                                           ELSE {<<>>}
       /\ nt_start \in NontermNames(G)
       /\ pc = "resolve"
       /\ memory = None
       /\ InitRest

\* load_grammar_str, lines 321-322: resolve, which returns the grammar or panics
load_grammar_str_resolve ==
    /\ pc = "resolve"
    /\ IF IsSome(resolve(G))
       THEN /\ G' = Unwrap(resolve(G))
            /\ pc' = "compile_grammar"
       ELSE /\ G' = G
            /\ pc' = "panic"
    /\ UNCHANGED <<tokens, nt_start, min_match, debug_level, tidx_arg, memory, cg, todo,
                   run_vars, log_vars, events, prior, runs>>

NextCompile == Next \/ load_grammar_str_resolve
SpecCompile == InitCompile /\ [][NextCompile]_vars

Compiled == pc \notin {"compile_grammar", "compiling"} /\ ~Unresolved
StringIdx(s) == Unwrap(lookup_string(cg, s))
NameIdx(name) == IF IsSome(name) THEN Some(StringIdx(Unwrap(name))) ELSE None

\* the component references a defined nonterminal
References(g, com) == com.rule.id = "Nonterminal" /\ com.rule.s \in NontermNames(g)

ExpectedOpcode(g, com) ==
    IF References(g, com)
    THEN [op |-> "Fork", ntidx |-> StringIdx(com.rule.s), nameidx |-> NameIdx(com.name)]
    ELSE [op |-> "Match", validx |-> StringIdx(com.rule.s), nameidx |-> NameIdx(com.name)]

\* the sum over the productions of (number of components + 1)
RECURSIVE ProgramLength(_, _)
ProgramLength(g, pids) ==
    IF pids = {} THEN 0
    ELSE LET pid == CHOOSE x \in pids : TRUE
         IN Len(g.productions[pid].components) + 1 + ProgramLength(g, pids \ {pid})

\* the addresses of the opcodes of the productions of nt
BlockOf(nt) ==
    LET prods == ProdsOf(G, nt)
        addrs == lookup_nonterm_idx(cg, StringIdx(nt))
    IN UNION {addrs[i]..(addrs[i] + Len(prods[i].components)) : i \in 1..Len(prods)}

\* in the text of the grammar, the components without apostrophes that name a
\* nonterminal with a rule are the ones resolve has made Nonterminals
ResolvedAsWritten(rules, g) ==
    \A r \in 1..Len(rules) : \A n \in 1..Len(rules[r][2].components) :
        LET text == rules[r][2].components[n].rule.s
            com == g.productions[r - 1].components[n]
        IN /\ com.name = rules[r][2].components[n].name
           /\ com.rule.id = "Nonterminal"
                 <=> /\ text[1] # "'" /\ text[Len(text)] # "'"
                     /\ \E q \in 1..Len(rules) : rules[q][1] = Str(text)

\* C20: the start address of every production is the number of opcodes emitted
\* before it; from there the program holds one opcode per component in order,
\* Fork with the binding name iff the component references a defined
\* nonterminal, else Match, then one Return with the nonterminal and the label
\* of the production; an empty production is a sole Return; the program is as
\* long as the sum over the productions of (components + 1).
C20_CompilerLayout ==
    Compiled =>
        /\ Len(cg.opcodes) = ProgramLength(G, DOMAIN G.productions)
        /\ DOMAIN cg.nt_names = {StringIdx(nt) : nt \in NontermNames(G)}
        /\ \A nt \in NontermNames(G) :
              LET prods == ProdsOf(G, nt)
                  addrs == lookup_nonterm_idx(cg, StringIdx(nt))
              IN /\ Len(addrs) = Len(prods)
                 /\ \A i \in 1..Len(prods) :
                       /\ addrs[i] + Len(prods[i].components) < Len(cg.opcodes)
                       /\ \A j \in 1..Len(prods[i].components) :
                             at(cg, addrs[i] + j - 1)
                                 = ExpectedOpcode(G, prods[i].components[j])
                       /\ at(cg, addrs[i] + Len(prods[i].components))
                             = [op |-> "Return", ntnameidx |-> StringIdx(nt),
                                nameidx |-> NameIdx(prods[i].name)]
                       /\ \A k \in 1..Len(prods) :
                             i < k => addrs[i] + Len(prods[i].components) < addrs[k]
        /\ \A nt1, nt2 \in NontermNames(G) :
              nt1 # nt2 => BlockOf(nt1) \cap BlockOf(nt2) = {}
        /\ UNION {BlockOf(nt) : nt \in NontermNames(G)} = 0..(Len(cg.opcodes) - 1)
        /\ G = GUndefined => ResolvedAsWritten(UndefinedRules, G)

\* the grammar with the undefined B is compiled: B is matched, A is forked, 'A'
\* is matched, and the empty production of A is a sole Return
C20_Witness ==
    /\ Compiled
    /\ G = GUndefined
    /\ \E a \in 0..(Len(cg.opcodes) - 3) :
          /\ at(cg, a) = [op |-> "Fork", ntidx |-> StringIdx("A"),
                          nameidx |-> Some(StringIdx("x"))]
          /\ at(cg, a + 1) = [op |-> "Match", validx |-> StringIdx("B"), nameidx |-> None]
          /\ at(cg, a + 2) = [op |-> "Match", validx |-> StringIdx("A"),
                              nameidx |-> Some(StringIdx("n"))]
    /\ \E n \in 1..Len(lookup_nonterm_idx(cg, StringIdx("A"))) :
          at(cg, lookup_nonterm_idx(cg, StringIdx("A"))[n]).op = "Return"

-----------------------------------------------------------------------------
(* The order of the nonterminals in the program *)

\* n1 has its first rule before the first rule of n2 in the text of the grammar
DefinedBefore(g, n1, n2) == g.nonterm_prod_map[n1][1] < g.nonterm_prod_map[n2][1]

\* C21: compile_grammar emits the nonterminals in definition order and the
\* productions of each in definition order: the first production of the
\* first-defined nonterminal is at address 0, every opcode of an earlier-defined
\* nonterminal is below every opcode of a later-defined one, and the start
\* addresses of a nonterminal are one per production, strictly increasing.
C21_DefinitionOrder ==
    Compiled =>
        /\ \A nt \in NontermNames(G) :
              (\A other \in NontermNames(G) \ {nt} : DefinedBefore(G, nt, other))
                  => lookup_nonterm_idx(cg, StringIdx(nt))[1] = 0
        /\ \A n1, n2 \in NontermNames(G) :
              (n1 # n2 /\ DefinedBefore(G, n1, n2))
                  => \A a \in BlockOf(n1) : \A b \in BlockOf(n2) : a < b
        /\ \A nt \in NontermNames(G) :
              LET addrs == lookup_nonterm_idx(cg, StringIdx(nt))
              IN /\ Len(addrs) = Len(ProdsOf(G, nt))
                 /\ \A i, k \in 1..Len(addrs) : i < k => addrs[i] < addrs[k]

-----------------------------------------------------------------------------
(* The string table *)

\* the strings of the grammar and one that is in no grammar
Interned(g) ==
    NontermNames(g)
    \cup {com.rule.s : com \in UNION {Range(p.components) : p \in AllProds(g)}}
    \cup {Unwrap(com.name) :
            com \in {c \in UNION {Range(p.components) : p \in AllProds(g)} : IsSome(c.name)}}
    \cup {Unwrap(p.name) : p \in {q \in AllProds(g) : IsSome(q.name)}}
    \cup {"?"}

\* every index held by an opcode or keying nt_names
IndexesUsed(c) ==
    DOMAIN c.nt_names
    \cup UNION {(IF o.op = "Match" THEN {o.validx}
                 ELSE IF o.op = "Fork" THEN {o.ntidx} ELSE {o.ntnameidx})
                \cup (IF IsSome(o.nameidx) THEN {Unwrap(o.nameidx)} ELSE {}) :
                o \in Range(c.opcodes)}

TableSound ==
    /\ \A i, j \in 1..Len(cg.strings) : cg.strings[i] = cg.strings[j] => i = j
    /\ \A x \in IndexesUsed(cg) : x < Len(cg.strings)
    /\ \A s \in Interned(G) :
          LET r == add_string(cg, s)
          IN /\ (\E i \in 1..Len(cg.strings) : cg.strings[i] = s) =>
                    /\ r.c = cg
                    /\ Nth(cg.strings, r.idx) = s
                    /\ lookup_string(cg, s) = Some(r.idx)
             /\ (\A i \in 1..Len(cg.strings) : cg.strings[i] # s) =>
                    /\ lookup_string(cg, s) = None
                    /\ r.c.strings = Append(cg.strings, s)
                    /\ r.c.opcodes = cg.opcodes /\ r.c.nt_names = cg.nt_names
                    /\ r.idx = Len(r.c.strings) - 1
             /\ lookup_string(r.c, s) = Some(r.idx)
             /\ \A i \in 1..Len(r.c.strings) : r.c.strings[i] = s => i = r.idx + 1

\* once the grammar is loaded
StringTableSound == Unresolved \/ TableSound

\* C22: the string table never holds a duplicate; add_string(s) returns the
\* existing index and leaves the table alone when s is there, else appends s and
\* returns the new last index; an index keeps denoting the same string;
\* lookup_string(s) returns that index; every index in an opcode or keying
\* nt_names is below the table length.
C22_StringInterning ==
    /\ []StringTableSound
    /\ [][/\ Len(cg'.strings) >= Len(cg.strings)
          /\ \A i \in 1..Len(cg.strings) : cg'.strings[i] = cg.strings[i]]_vars

\* a compiled table whose strings are shared between opcodes, and to which "?"
\* would be appended
C22_Witness ==
    /\ Compiled
    /\ Len(cg.strings) >= 5
    /\ \E a, b \in 1..Len(cg.opcodes) :
          /\ a # b
          /\ cg.opcodes[a].op = "Match" /\ cg.opcodes[b].op = "Match"
          /\ cg.opcodes[a].validx = cg.opcodes[b].validx
    /\ add_string(cg, "?").idx = Len(cg.strings)

-----------------------------------------------------------------------------
(* References to nonterminals *)

StripLeading(text) == IF text # <<>> /\ Head(text) = "'" THEN Tail(text) ELSE text
StripTrailing(text) ==
    IF text # <<>> /\ text[Len(text)] = "'" THEN SubSeq(text, 1, Len(text) - 1) ELSE text

\* the opcode compiled for component n of the r-th rule of the text
OpcodeOf(rules, r, n) ==
    LET pids == G.nonterm_prod_map[rules[r][1]]
        i == CHOOSE k \in 1..Len(pids) : pids[k] = r - 1
    IN at(cg, lookup_nonterm_idx(cg, StringIdx(rules[r][1]))[i] + n - 1)

\* C23: a component compiles to Fork iff its text is the name of a nonterminal
\* defined anywhere in the grammar; every other component, a bare identifier
\* that names no nonterminal included, compiles to Match on its text without
\* one leading and one trailing apostrophe; compilation does not fail.
C23_LenientResolution ==
    \A rules \in TextRules :
        (IF Unresolved THEN G = load_rules(Grammar_new, rules, 1)
                       ELSE Some(G) = load_grammar_str(rules)) =>
            /\ pc # "panic"
            /\ Compiled =>
                  \A r \in 1..Len(rules) : \A n \in 1..Len(rules[r][2].components) :
                      LET text == rules[r][2].components[n].rule.s
                          opcode == OpcodeOf(rules, r, n)
                      IN IF \E q \in 1..Len(rules) : rules[q][1] = Str(text)
                         THEN /\ opcode.op = "Fork"
                              /\ Nth(cg.strings, opcode.ntidx) = Str(text)
                         ELSE /\ opcode.op = "Match"
                              /\ Nth(cg.strings, opcode.validx)
                                    = Str(StripTrailing(StripLeading(text)))

-----------------------------------------------------------------------------
(* Validity of the fragments the threads and the tails point to *)

\* the fragment indexes held by the live threads and by the recorded tails
Pointers == {th.fragidx : th \in Threads} \cup {tails[k][1] : k \in 1..Len(tails)}

\* walk_back for at most fuel steps
RECURSIVE Chain(_, _, _)
Chain(frags, curr, fuel) ==
    IF curr = NIL \/ fuel = 0 THEN <<>>
    ELSE <<curr>> \o CHOOSE rest \in {Chain(frags, prev, fuel - 1) :
                                prev \in {prev_fragment(frags, curr, NIL)}} : TRUE

\* the walk from curr ends, within the arena, at a RuleStart without parent and
\* passes no index twice; every fragment on it is counted and not free
ValidSpine(curr) ==
    LET spine == Chain(fragments, curr, Len(fragments) + 1)
    IN /\ spine # <<>>
       /\ Len(spine) <= Len(fragments)
       /\ \A i, j \in 1..Len(spine) : i # j => spine[i] # spine[j]
       /\ \A i \in 1..Len(spine) :
             /\ spine[i] \in 0..(Len(fragments) - 1)
             /\ Nth(fragments, spine[i]).refcount > 0
             /\ spine[i] \notin Range(freelist)
       /\ Nth(fragments, Last(spine)).value.type = "RuleStart"
       /\ Nth(fragments, Last(spine)).value.parent = None

\* the indexes on the spines of the live threads and the tails
SpineIndexes == UNION {Range(Chain(fragments, p, Len(fragments) + 1)) : p \in Pointers}

\* a step overwrites no fragment that is on a spine before and after it, and
\* keeps every recorded tail with its spine
SpinesKept ==
    pc # "run" =>
        /\ \A i \in SpineIndexes :
              i \in SpineIndexes' => Nth(fragments', i).value = Nth(fragments, i).value
        /\ \A k \in 1..Len(tails) :
              /\ k <= Len(tails') /\ tails'[k] = tails[k]
              /\ Chain(fragments', tails[k][1], Len(fragments') + 1)
                    = Chain(fragments, tails[k][1], Len(fragments) + 1)
              /\ \A i \in Range(Chain(fragments, tails[k][1], Len(fragments) + 1)) :
                    Nth(fragments', i).value = Nth(fragments, i).value

\* C24: for every live thread and every recorded tail, the walk from its fragment
\* along prev/child/parent visits only fragments with refcount > 0 that are not
\* in the freelist, visits none twice and ends at a RuleStart without parent; no
\* step overwrites a fragment of such a walk, so a tail keeps its spine.
C24_FragmentValidity ==
    /\ [](\A p \in Pointers : ValidSpine(p))
    /\ [][SpinesKept]_vars

\* a tail is recorded whose spine passes through a reused slot: a fragment of it
\* sits below the fragment it follows
C24_Witness ==
    \E k \in 1..Len(tails) :
        LET spine == Chain(fragments, tails[k][1], Len(fragments) + 1)
        IN /\ Len(spine) >= 3
           /\ \E i \in Range(spine) : prev_fragment(fragments, i, NIL) > i

-----------------------------------------------------------------------------
(* What the refcounts count *)

\* the slots of the arena that are not in the freelist
LiveIdx == {i \in 0..(Len(fragments) - 1) : i \notin Range(freelist)}

RECURSIVE SumRefcounts(_, _)
SumRefcounts(live, n) ==
    IF n = 0 THEN 0
    ELSE (IF (n - 1) \in live THEN Nth(fragments, n - 1).refcount ELSE 0)
            + SumRefcounts(live, n - 1)

\* the threads and the tails that point to slot i
Holders(i) ==
    Cardinality({n \in 1..Len(runnable) : runnable[n].fragidx = i})
        + Cardinality({n \in 1..Len(matchable) : matchable[n][2].fragidx = i})
        + Cardinality({k \in 1..Len(tails) : tails[k][1] = i})
\* the live fragments whose prev, child or parent is slot i
Links(i) == Cardinality({j \in LiveIdx : prev_fragment(fragments, j, NIL) = i})

\* what the refcount of slot i counts beyond its holders and links
Excess(i) ==
    IF i < Len(fragments) THEN Nth(fragments, i).refcount - Holders(i) - Links(i) ELSE 0

\* the step is the Return of a top-level thread at fragment i, below min_match
DroppedAt(i) ==
    /\ pc = "dispatch"
    /\ runnable # <<>>
    /\ at(cg, Last(runnable).ip).op = "Return"
    /\ Last(runnable).sp = NIL
    /\ tokidx < min_match
    /\ Last(runnable).fragidx = i

\* C25, as stated: the refcounts of the live fragments add up to the number of
\* live threads plus the number of recorded tails.
C25_RefcountSum ==
    pc \in {"dispatch", "match", "done"} =>
        SumRefcounts(LiveIdx, Len(fragments))
            = Len(runnable) + Len(matchable) + Len(tails)

\* C25, amended: the refcount of a fragment is the number of live threads and
\* tails pointing to it, plus the number of live fragments linked to it by
\* prev/child/parent, plus the number of top-level threads that returned at it
\* below min_match, whose reference is never given back.
C25_RefcountBalance ==
    /\ [](\A i \in 0..(Len(fragments) - 1) :
             /\ Excess(i) >= 0
             /\ min_match = 0 => Excess(i) = 0)
    /\ [][pc # "run" =>
             \A i \in 0..(Len(fragments') - 1) :
                 Excess(i)' = Excess(i) + IF DroppedAt(i) THEN 1 ELSE 0]_vars

\* a thread was dropped below min_match and left its reference behind, a tail is
\* recorded, and a fragment is held by a thread and linked to by another fragment
C25_Witness ==
    /\ pc = "dispatch"
    /\ tails # <<>>
    /\ \E i \in LiveIdx : Excess(i) = 1
    /\ \E i \in LiveIdx : Holders(i) >= 1 /\ Links(i) >= 1
    /\ SumRefcounts(LiveIdx, Len(fragments)) > Len(runnable) + Len(matchable) + Len(tails) + 1

-----------------------------------------------------------------------------
(* The Fork step *)

\* the thread the dispatch loop pops next stands at a Fork
AtFork ==
    /\ pc = "dispatch"
    /\ runnable # <<>>
    /\ at(cg, Last(runnable).ip).op = "Fork"

\* the number of productions the Grammar has for the nonterminal interned at ntidx
ProductionCount(ntidx) ==
    IF Nth(cg.strings, ntidx) \in DOMAIN G.nonterm_prod_map
    THEN Len(G.nonterm_prod_map[Nth(cg.strings, ntidx)]) ELSE 0

\* the slots whose fragment the step writes
Written == {i \in 0..(Len(fragments') - 1) :
               i >= Len(fragments) \/ Nth(fragments', i) # Nth(fragments, i)}

ForkEffect ==
    LET t == Last(runnable)
        opcode == at(cg, t.ip)
        addrs == lookup_nonterm_idx(cg, opcode.ntidx)
        children == SubSeq(runnable', Len(runnable), Len(runnable'))
    IN /\ \E a \in 0..(Len(fragments') - 1) :
             /\ Written = {a}
             /\ IF freelist # <<>>
                THEN /\ a \in Range(freelist)
                     /\ Len(fragments') = Len(fragments)
                     /\ Range(freelist') = Range(freelist) \ {a}
                     /\ Len(freelist') = Len(freelist) - 1
                ELSE /\ a = Len(fragments)
                     /\ Len(fragments') = Len(fragments) + 1
                     /\ freelist' = freelist
             /\ Nth(fragments', a).value
                   = RuleStart(Some(t.fragidx), opcode.nameidx, opcode.ntidx)
             /\ Nth(fragments', a).refcount = ProductionCount(opcode.ntidx)
             /\ a # t.fragidx
             /\ \A n \in 1..Len(children) : children[n].fragidx = a
       /\ Len(addrs) = ProductionCount(opcode.ntidx)
       /\ SubSeq(runnable', 1, Len(runnable) - 1) = Front(runnable)
       /\ Len(children) = Len(addrs)
       /\ \A n \in 1..Len(children) :
             /\ children[n].ip = addrs[n]
             /\ children[n].sp # NIL
             /\ top(shared_stack', children[n].sp) = t.ip
             /\ pop(shared_stack', children[n].sp) = t.sp
       /\ t \notin Range(runnable')
       /\ \A n \in 1..Len(matchable') : matchable'[n][2] # t
       /\ matchable' = matchable
       /\ Nth(fragments', t.fragidx).refcount = Nth(fragments, t.fragidx).refcount

\* C26: a Fork writes exactly one fragment, the RuleStart whose parent is the
\* thread's fragment, into a free slot if there is one, else into a new slot;
\* it replaces the thread by one child per production of the nonterminal, each
\* at that production's start address, on the new RuleStart, with the thread's
\* ip on top of the thread's stack; the RuleStart's refcount is the number of
\* productions and the refcount of the thread's old fragment is unchanged.
C26_ForkStep == [][AtFork => ForkEffect]_vars

\* after a Fork that reused a freed slot: the RuleStart sits below its parent
\* and the two children on it are the last threads of runnable
C26_Witness ==
    /\ pc = "dispatch"
    /\ Len(runnable) >= 2
    /\ LET c == Last(runnable)
           d == runnable[Len(runnable) - 1]
           v == Nth(fragments, c.fragidx)
       IN /\ d.fragidx = c.fragidx
          /\ v.value.type = "RuleStart"
          /\ v.value.parent # None
          /\ Unwrap(v.value.parent) > c.fragidx
          /\ v.refcount = 2
          /\ c.sp # NIL /\ d.sp # NIL /\ c.sp # d.sp
          /\ top(shared_stack, c.sp) = top(shared_stack, d.sp)
          /\ at(cg, top(shared_stack, c.sp)).op = "Fork"

-----------------------------------------------------------------------------
(* Call and return *)

\* the thread the dispatch loop pops next stands at a Return and has a return
\* address
AtNestedReturn ==
    /\ pc = "dispatch"
    /\ runnable # <<>>
    /\ at(cg, Last(runnable).ip).op = "Return"
    /\ Last(runnable).sp # NIL

ReturnEffect ==
    LET t == Last(runnable)
        opcode == at(cg, t.ip)
        ret == top(shared_stack, t.sp)
        r == Last(runnable')
    IN /\ at(cg, ret).op = "Fork"
       /\ at(cg, ret).ntidx = opcode.ntnameidx
       /\ Len(runnable') = Len(runnable)
       /\ Front(runnable') = Front(runnable)
       /\ r.ip = ret + 1
       /\ r.sp = pop(shared_stack, t.sp)
       /\ r.fragidx # t.fragidx
       /\ Written = {r.fragidx}
       /\ Nth(fragments', r.fragidx)
             = ParseFragment(1, RuleNonTerm(t.fragidx, opcode.ntnameidx, opcode.nameidx))
       /\ shared_stack' = shared_stack

\* a Fork gives each child a stack item of its own that records the forking
\* thread's ip and sp, and no step changes an item of the stack
StackRecordsCaller ==
    /\ AtFork =>
          \A n \in Len(runnable)..Len(runnable') :
              /\ runnable'[n].sp >= Len(shared_stack)
              /\ Nth(shared_stack', runnable'[n].sp)
                    = [u |-> Last(runnable).ip, prev |-> Last(runnable).sp]
    /\ pc # "run" =>
          \A i \in 1..Len(shared_stack) :
              i <= Len(shared_stack') /\ shared_stack'[i] = shared_stack[i]

\* C27: a thread with a return address that executes Return finds at top(sp) a
\* Fork of the nonterminal it returns from; it goes on at top(sp) + 1 with
\* pop(sp), the sp its stack item recorded from the forking thread, on a new
\* RuleNonTerm of refcount 1 whose child is its previous fragment and whose
\* names are the Return's.
C27_ReturnDiscipline ==
    /\ [][AtNestedReturn => ReturnEffect]_vars
    /\ [][StackRecordsCaller]_vars

\* after a Return into a caller that has a caller itself: the thread stands
\* behind a Fork of the nonterminal its RuleNonTerm closes
C27_Witness ==
    /\ pc = "dispatch"
    /\ runnable # <<>>
    /\ LET r == Last(runnable)
           v == Nth(fragments, r.fragidx)
       IN /\ r.sp # NIL
          /\ r.ip > 0
          /\ at(cg, r.ip - 1).op = "Fork"
          /\ v.value.type = "RuleNonTerm"
          /\ v.refcount = 1
          /\ at(cg, r.ip - 1).ntidx = v.value.ntnameidx
          /\ Nth(fragments, v.value.child).refcount >= 1

-----------------------------------------------------------------------------
(* Reclamation of the fragments of a dead thread *)

\* the thread the match loop pops next fails its Match
AtFailedMatch ==
    /\ pc = "match"
    /\ matchable # <<>>
    /\ at(cg, Last(matchable)[2].ip).op = "Match"
    /\ ~match_decision(matched, tokens, cg.strings,
                       at(cg, Last(matchable)[2].ip).validx, tokidx).result

\* the spine of the dead thread, and the position on it of the first fragment
\* that another thread, tail or fragment refers to as well
DeadSpine == Chain(fragments, Last(matchable)[2].fragidx, Len(fragments) + 1)
StopAt ==
    IF \E k \in 1..Len(DeadSpine) : Nth(fragments, DeadSpine[k]).refcount > 1
    THEN CHOOSE k \in 1..Len(DeadSpine) :
            /\ Nth(fragments, DeadSpine[k]).refcount > 1
            /\ \A q \in 1..(k - 1) : Nth(fragments, DeadSpine[q]).refcount = 1
    ELSE Len(DeadSpine) + 1

ReleaseEffect ==
    LET freed == {DeadSpine[k] : k \in 1..(StopAt - 1)}
    IN /\ pc' = "match"
       /\ Len(fragments') = Len(fragments)
       /\ \A k \in 1..Len(DeadSpine) :
             /\ Nth(fragments', DeadSpine[k]).value = Nth(fragments, DeadSpine[k]).value
             /\ Nth(fragments', DeadSpine[k]).refcount =
                   IF k <= StopAt THEN Nth(fragments, DeadSpine[k]).refcount - 1
                   ELSE Nth(fragments, DeadSpine[k]).refcount
       /\ \A i \in 0..(Len(fragments) - 1) :
             i \notin Range(DeadSpine) => Nth(fragments', i) = Nth(fragments, i)
       /\ freed \cap Range(freelist) = {}
       /\ Range(freelist') = Range(freelist) \cup freed
       /\ Len(freelist') = Len(freelist) + Cardinality(freed)
       /\ StopAt <= Len(DeadSpine) =>
             /\ Nth(fragments', DeadSpine[StopAt]).refcount > 0
             /\ DeadSpine[StopAt] \notin Range(freelist')

\* a slot goes to the freelist in the step that takes its refcount to zero
FreedAtZero ==
    pc # "run" =>
        \A i \in Range(freelist') \ Range(freelist) :
            /\ Nth(fragments, i).refcount > 0
            /\ Nth(fragments', i).refcount = 0

\* C28: the walk back from the fragment of a thread that fails its Match takes
\* one from the refcount of each fragment up to and including the first one
\* that stays above zero, and adds to the freelist, once each, exactly the
\* fragments before that one; the RuleStart of a Fork whose children are all
\* dead is freed like any other and the walk goes on to its parent.  No slot
\* of the freelist has refcount > 0, a slot enters the freelist only as its
\* refcount reaches zero, and the assertion on the refcount never fails.
C28_DeadBranchReclamation ==
    /\ [](pc # "panic" /\ \A i \in Range(freelist) : Nth(fragments, i).refcount = 0)
    /\ [][AtFailedMatch => ReleaseEffect]_vars
    /\ [][FreedAtZero]_vars

\* the last child of a Fork has died: the RuleStart and the fragment it was
\* forked from are both free, while other threads are still to be matched
C28_Witness ==
    /\ pc = "match"
    /\ Threads # {}
    /\ \E i \in Range(freelist) :
          LET v == Nth(fragments, i).value
          IN /\ v.type = "RuleStart"
             /\ v.parent # None
             /\ Unwrap(v.parent) \in Range(freelist)
    /\ \A th \in Threads : th.fragidx \in LiveIdx

-----------------------------------------------------------------------------
(* The order of matchable *)

\* the thread the dispatch loop pops next stands at a Match
AtMatch ==
    /\ pc = "dispatch"
    /\ runnable # <<>>
    /\ at(cg, Last(runnable).ip).op = "Match"

NonDecreasing(keys) == \A i, j \in 1..Len(keys) : i < j => keys[i] <= keys[j]
MatchableKeys == [n \in 1..Len(matchable) |-> matchable[n][1]]

\* the entry of the parked thread
Parked == <<at(cg, Last(runnable).ip).validx, Last(runnable)>>

\* the thread is parked behind every entry whose value_idx is not larger
ParkedBehindEqual ==
    matchable' = InsertAt(matchable,
                          Cardinality({n \in 1..Len(matchable) : matchable[n][1] <= Parked[1]}),
                          Parked)

\* the thread is parked in front of an entry of the same value_idx if there is
\* one, else where its value_idx belongs
ParkedBeforeAnEqual ==
    \E pos \in 0..Len(matchable) :
        /\ matchable' = InsertAt(matchable, pos, Parked)
        /\ IF \E n \in 1..Len(matchable) : matchable[n][1] = Parked[1]
           THEN matchable[pos + 1][1] = Parked[1]
           ELSE pos = Cardinality({n \in 1..Len(matchable) : matchable[n][1] < Parked[1]})

\* the match loop takes the entries as they stand in the list the dispatch
\* phase left, front first
MatchedInOrder ==
    (pc = "match" /\ pc' = "match" /\ matchable # <<>>) =>
        /\ matchable' = Front(matchable)
        /\ prev_validx' = Last(matchable)[1]
        /\ prev_validx = NIL \/ prev_validx <= prev_validx'

\* C29, as stated: matchable stays sorted by value_idx and a thread parked with
\* a value_idx that is already there stands behind the entries of that
\* value_idx, in insertion order.
C29_TiesKeepInsertionOrder == [][AtMatch => ParkedBehindEqual]_vars

\* C29, amended: matchable is sorted by value_idx after every insertion; a
\* thread parked with a value_idx that is already there is put in front of one
\* of the entries of that value_idx, so ties do not keep insertion order; the
\* match phase takes the entries in non-decreasing value_idx order and its
\* assertion never fails.
C29_MatchableSorted ==
    /\ [](/\ pc # "panic"
          /\ pc = "dispatch" => NonDecreasing(MatchableKeys)
          /\ pc = "match" => NonDecreasing(Reverse(MatchableKeys)))
    /\ [][AtMatch => ParkedBeforeAnEqual]_vars
    /\ [][MatchedInOrder]_vars

\* two children of one Fork are parked at the same value_idx: the child forked
\* last was popped and parked first, and stands behind the other
C29_Witness ==
    /\ pc = "dispatch"
    /\ Len(matchable) >= 2
    /\ \E n \in 1..(Len(matchable) - 1) :
          /\ matchable[n][1] = matchable[n + 1][1]
          /\ matchable[n][2].fragidx = matchable[n + 1][2].fragidx
          /\ matchable[n][2].sp # NIL
          /\ matchable[n][2].sp < matchable[n + 1][2].sp

-----------------------------------------------------------------------------
(* The freelist and the growth of the arena *)

\* the thread the match loop pops next is matched
AtMatched ==
    /\ pc = "match"
    /\ matchable # <<>>
    /\ at(cg, Last(matchable)[2].ip).op = "Match"
    /\ match_decision(matched, tokens, cg.strings,
                      at(cg, Last(matchable)[2].ip).validx, tokidx).result

\* the step stores a fragment
Allocating == AtFork \/ AtNestedReturn \/ AtMatched

Ascending(v) == \A i, j \in 1..Len(v) : i < j => v[i] < v[j]
Lowest(v) == CHOOSE x \in Range(v) : \A y \in Range(v) : x <= y
Highest(v) == CHOOSE x \in Range(v) : \A y \in Range(v) : x >= y

\* the arena changes its length only by a store into an empty freelist
GrowsWhenEmpty ==
    /\ (Allocating /\ freelist = <<>>) =>
          /\ Written = {Len(fragments)}
          /\ Len(fragments') = Len(fragments) + 1
          /\ freelist' = freelist
    /\ (pc # "run" /\ Len(fragments') # Len(fragments)) => (Allocating /\ freelist = <<>>)

\* C30, as stated: the freelist is ascending without duplicates and a store
\* into a non-empty freelist takes its lowest index.
C30_LowestFreeIndex ==
    /\ [](Ascending(freelist))
    /\ [][(Allocating /\ freelist # <<>>) => Written = {Lowest(freelist)}]_vars

\* C30, amended: the freelist is ascending without duplicates; a store into a
\* non-empty freelist takes its last, highest, index and leaves the others; the
\* arena grows, by one slot, only by a store into an empty freelist.
C30_HighestFreeIndex ==
    /\ [](Ascending(freelist))
    /\ [][(Allocating /\ freelist # <<>>) =>
             /\ Written = {Highest(freelist)}
             /\ freelist' = Front(freelist)
             /\ Len(fragments') = Len(fragments)]_vars
    /\ [][GrowsWhenEmpty]_vars

\* a slot was reused, its fragment follows one that sits above it, while a
\* lower slot is still free
C30_Witness ==
    \E i \in Range(freelist) : \E j \in LiveIdx :
        /\ i < j
        /\ Nth(fragments, j).refcount > 0
        /\ prev_fragment(fragments, j, NIL) > j

-----------------------------------------------------------------------------
(* Where a new fragment points *)

\* the thread whose step stores a fragment
Storing == IF pc = "dispatch" THEN Last(runnable) ELSE Last(matchable)[2]

\* C31, as stated: a fragment that is created refers, through prev, child or
\* parent, to an index below the index of its own slot.
C31_LinksBelow ==
    [][Allocating => \A a \in Written : prev_fragment(fragments', a, NIL) < a]_vars

\* C31, amended: a fragment that is created refers to the fragment its thread
\* stood on, which is another slot, counted and not free; that index is below
\* its own when it is stored in a new slot of the arena, and may be above it
\* when it is stored in a slot taken from the freelist.
C31_LinksToLive ==
    [][Allocating =>
          \A a \in Written :
              LET linked == prev_fragment(fragments', a, NIL)
              IN /\ linked = Storing.fragidx
                 /\ linked # a
                 /\ linked \in LiveIdx
                 /\ Nth(fragments, linked).refcount > 0
                 /\ freelist = <<>> => linked < a]_vars

\* a RuleTermValue or RuleNonTerm stored in a reused slot, whose prev or child
\* sits above it, next to one in a new slot, whose prev or child sits below it
C31_Witness ==
    /\ \E i \in LiveIdx :
          /\ Nth(fragments, i).value.type \in {"RuleTermValue", "RuleNonTerm"}
          /\ Nth(fragments, i).refcount > 0
          /\ prev_fragment(fragments, i, NIL) > i
    /\ \E j \in LiveIdx :
          /\ Nth(fragments, j).value.type \in {"RuleTermValue", "RuleNonTerm"}
          /\ Nth(fragments, j).refcount > 0
          /\ prev_fragment(fragments, j, NIL) < j

-----------------------------------------------------------------------------
(* The two phases of the outer loop *)

MatchableThreads == {matchable[n][2] : n \in 1..Len(matchable)}

\* every parked thread stands at the Match of its key, and no thread is in both
\* worklists
ParkedAtMatch ==
    /\ Range(runnable) \cap MatchableThreads = {}
    /\ \A n \in 1..Len(matchable) :
          /\ at(cg, matchable[n][2].ip).op = "Match"
          /\ at(cg, matchable[n][2].ip).validx = matchable[n][1]

\* matchable takes the thread popped at a Match and nothing else, and gives up
\* no entry before the match phase
ParkedUntilMatchPhase ==
    pc = "dispatch" =>
        /\ Range(matchable) \subseteq Range(matchable')
        /\ Len(matchable') >= Len(matchable)
        /\ Range(matchable') # Range(matchable) =>
              /\ AtMatch
              /\ Range(matchable') = Range(matchable) \cup {Parked}
              /\ Last(runnable) \notin Range(runnable')

\* the phases follow each other on empty worklists and each turn of the outer
\* loop adds one to tokidx
PhasesAlternate ==
    /\ (pc = "dispatch" /\ pc' # "dispatch") => (runnable = <<>> /\ pc' = "match")
    /\ (pc = "match" /\ pc' # "match") =>
          /\ matchable = <<>>
          /\ tokidx' = tokidx + 1
          /\ pc' = IF runnable = <<>> THEN "done" ELSE "dispatch"
    /\ (pc \in {"dispatch", "match"} /\ pc' = pc) => tokidx' = tokidx

\* C32: no thread is in runnable and in matchable; a thread goes from runnable
\* to matchable only at a Match, under the value_idx of that Match, and stays
\* there until the match phase; the match phase begins with runnable empty and
\* ends with matchable empty, each turn of the outer loop adds exactly one to
\* tokidx, and neither the panic nor the emptiness assertions are reached.
C32_PhaseDiscipline ==
    /\ [](pc # "panic" /\ ParkedAtMatch)
    /\ [][ParkedUntilMatchPhase]_vars
    /\ [][PhasesAlternate]_vars

\* in the match phase of the second token: a matched thread is runnable again
\* while another is still parked
C32_Witness ==
    /\ pc = "match"
    /\ tokidx = 1
    /\ runnable # <<>>
    /\ matchable # <<>>
    /\ at(cg, Last(matchable)[2].ip).validx = Last(matchable)[1]

-----------------------------------------------------------------------------
(* SharedStack on its own: any sequence of push, top and pop *)

\* events logs the pushes as <<sp, u, returned sp>>; prior holds the last read
InitStack ==
    /\ G = Grammar_new
    /\ tokens = <<>>
    /\ nt_start = ""
    /\ min_match = 0
    /\ debug_level = 0
    /\ tidx_arg = 0
    /\ cg = CompiledGrammar_new
    /\ todo = <<>>
    /\ pc = "stack"
    /\ fragments = <<>>
    /\ tails = <<>>
    /\ runnable = <<>>
    /\ matchable = <<>>
    /\ freelist = <<>>
    /\ shared_stack = SharedStack_new
    /\ matched = <<>>
    /\ prev_validx = NIL
    /\ tokidx = 0
    /\ oracle_calls = <<>>
    /\ parked = {}
    /\ events = <<>>
    /\ prior = None
    /\ runs = 0
    /\ memory = None

\* the stack pointers a caller can hold: usize::MAX or one that push returned
StackPointers == {NIL} \cup {events[k][3] : k \in 1..Len(events)}

stack_push ==
    /\ pc = "stack"
    /\ Len(shared_stack) < MaxPushes
    /\ \E sp \in StackPointers : \E u \in 0..MaxValue :
          LET pushed == push(shared_stack, sp, u)
          IN /\ shared_stack' = pushed.stack
             /\ events' = Append(events, <<sp, u, pushed.sp>>)
    /\ UNCHANGED <<input_vars, cg, todo, pc, fragments, tails, runnable, matchable,
                   freelist, matched, prev_validx, tokidx, log_vars, prior, runs>>

stack_top ==
    /\ pc = "stack"
    /\ \E sp \in StackPointers \ {NIL} :
          prior' = Some([call |-> "top", sp |-> sp, result |-> top(shared_stack, sp)])
    /\ UNCHANGED <<input_vars, cg, todo, pc, run_vars, log_vars, events, runs>>

stack_pop ==
    /\ pc = "stack"
    /\ \E sp \in StackPointers \ {NIL} :
          prior' = Some([call |-> "pop", sp |-> sp, result |-> pop(shared_stack, sp)])
    /\ UNCHANGED <<input_vars, cg, todo, pc, run_vars, log_vars, events, runs>>

NextStack == stack_push \/ stack_top \/ stack_pop
SpecStack == InitStack /\ [][NextStack]_vars

\* C33: push returns the length the stack had before the call; through the
\* pointer it returned, top reads the value pushed and pop the sp pushed onto,
\* then and after any later push; push changes no item there was, top and pop
\* change nothing.
C33_PersistentStack ==
    /\ [](\A k \in 1..Len(events) :
             /\ events[k][3] = k - 1
             /\ top(shared_stack, events[k][3]) = events[k][2]
             /\ pop(shared_stack, events[k][3]) = events[k][1])
    /\ [][/\ \A i \in 1..Len(shared_stack) :
                i <= Len(shared_stack') /\ shared_stack'[i] = shared_stack[i]
          /\ prior' # prior => shared_stack' = shared_stack]_vars

\* two items pushed onto the same item, a third pushed onto the empty stack
\* after them, and a read made through the oldest pointer
C33_Witness ==
    /\ pc = "stack"
    /\ Len(events) >= 4
    /\ events[2][1] = 0 /\ events[3][1] = 0
    /\ events[2][2] # events[3][2]
    /\ events[4][1] = NIL
    /\ prior # None
    /\ Unwrap(prior).sp = 0

-----------------------------------------------------------------------------
(* Left recursion and the arena *)

\* what the code does instead, under SpecAll: run from a nonterminal that enters
\* the left recursion never returns, whatever the memory of the process
LeftRecursionNeverReturns == LeftRecursiveFrom(G, nt_start) => ~Returned

-----------------------------------------------------------------------------
(* Exact reference counts *)

\* C35: in a run with min_match = 0, the refcount of every fragment that is not
\* in the freelist is the number of live threads on it, plus the number of
\* tails on it, plus the number of fragments outside the freelist whose prev,
\* child or parent it is.
C35_ExactRefcounts ==
    min_match = 0 =>
        \A f \in LiveIdx : Nth(fragments, f).refcount = Holders(f) + Links(f)

\* min_match is 0; a tail is recorded on a fragment, two threads stand on one
\* RuleStart, and a fragment is kept by the links of two others
C35_Witness ==
    /\ min_match = 0
    /\ \E f \in LiveIdx : \E k \in 1..Len(tails) : tails[k][1] = f
    /\ \E f \in LiveIdx :
          /\ Nth(fragments, f).value.type = "RuleStart"
          /\ Cardinality({th \in Threads : th.fragidx = f}) = 2
          /\ Nth(fragments, f).refcount >= 2
    /\ \E f \in LiveIdx : Links(f) = 2 /\ Nth(fragments, f).refcount = 2

-----------------------------------------------------------------------------
(* The names the handler is given *)

\* C36: in the stream of execute, every start is closed by an end of the same
\* nonterminal; a nested start carries the binding name of the component that
\* refers to it, and its end the label of the production taken (None without
\* label); the start and the end of the root rule both carry None, whatever
\* the label of the production taken at the top.
C36_EndEventLabels ==
    Executed =>
        /\ events[1] = start_call(nt_start, None)
        /\ MatchingEnd(events, 1) = Len(events)
        /\ Last(events) = end_call(nt_start, None)
        /\ \A i \in 1..Len(events) :
              events[i].call = "start" =>
                  LET close == events[MatchingEnd(events, i)]
                  IN /\ close.call = "end"
                     /\ close.ntname = events[i].ntname
                     /\ \E prod \in Range(iter_over_nonterm(G, events[i].ntname)) :
                           /\ TakenAt(events, i, prod)
                           /\ i > 1 => close.xname = prod.name

\* START : 'b'(bn) W(wtypent) 'z' `startrule` with W : 'z' `z` was executed on
\* [b, z, z]: W starts under wtypent and ends under z, the term of b is under
\* bn, and startrule is not reported
C36_Witness ==
    /\ Executed
    /\ G = GNamed
    /\ nt_start = "START"
    /\ \E i \in 2..Len(events) :
          /\ events[i] = start_call("W", Some("wtypent"))
          /\ events[MatchingEnd(events, i)] = end_call("W", Some("z"))
    /\ events[2] = term_call(0, Some("bn"))
    /\ Last(events) = end_call("START", None)
    /\ \A i \in 1..Len(events) :
          events[i].call = "end" => events[i].xname # Some("startrule")

-----------------------------------------------------------------------------
(* The order of the tails *)

\* a tail is added behind the others, with the token index of the step
TailsAppended ==
    pc # "run" =>
        \/ tails' = tails
        \/ /\ AtTopReturn
           /\ tails' = Append(tails, <<Last(runnable).fragidx, tokidx>>)

\* C37: the tails stand in the order of the token index at which their
\* top-level Return ran, so tokens_consumed never decreases along the list and
\* the tree of index 0 is one with the smallest tokens_consumed.
C37_TailOrder ==
    /\ [](/\ \A i, j \in 1..Len(tails) : i < j => tails[i][2] <= tails[j][2]
          /\ \A k \in 1..Len(tails) : tails[1][2] <= tails[k][2] /\ tails[k][2] <= tokidx)
    /\ [][TailsAppended]_vars

\* run has returned at least three trees, each over more tokens than the one
\* before it
C37_Witness ==
    /\ Returned
    /\ Len(tails) >= 3
    /\ tails[1][2] < tails[2][2]
    /\ tails[2][2] < tails[3][2]

-----------------------------------------------------------------------------
(* The instruction pointers *)

\* the start addresses of the productions
StartAddresses == UNION {Range(cg.nt_names[k]) : k \in DOMAIN cg.nt_names}
ValidIp(ip) == ip \in 0..(Len(cg.opcodes) - 1)
\* the start address of the production the opcode at ip belongs to
StartOf(ip) == CHOOSE s \in StartAddresses : s <= ip /\ \A r \in StartAddresses : r <= ip => r <= s

\* the program is one block per production, from its start address to its
\* Return
ProductionBlocks ==
    /\ Len(cg.opcodes) > 0 => 0 \in StartAddresses
    /\ \A a \in 0..(Len(cg.opcodes) - 1) :
          at(cg, a).op = "Return" <=> (a + 1 = Len(cg.opcodes) \/ (a + 1) \in StartAddresses)

\* where the step puts the threads it creates or moves
IpStep ==
    /\ pc = "run" =>
          \A n \in 1..Len(runnable') :
              /\ ValidIp(runnable'[n].ip)
              /\ \E i \in 1..Len(lookup_nonterm_idx(cg, StringIdx(nt_start))) :
                    runnable'[n].ip = lookup_nonterm_idx(cg, StringIdx(nt_start))[i]
    /\ AtFork =>
          \A n \in Len(runnable)..Len(runnable') :
              /\ ValidIp(runnable'[n].ip)
              /\ runnable'[n].ip \in StartAddresses
              /\ runnable'[n].ip
                    \in Range(lookup_nonterm_idx(cg, at(cg, Last(runnable).ip).ntidx))
    /\ AtNestedReturn =>
          LET ret == top(shared_stack, Last(runnable).sp)
          IN /\ Last(runnable').ip = ret + 1
             /\ ValidIp(ret + 1)
             /\ StartOf(ret + 1) = StartOf(ret)
    /\ AtMatched =>
          LET ip == Last(matchable)[2].ip
          IN /\ Last(runnable').ip = ip + 1
             /\ ValidIp(ip + 1)
             /\ StartOf(ip + 1) = StartOf(ip)

\* C38: every ip a thread is given, the start address of a production of the
\* start nonterminal or of the forked one, the address behind the Fork
\* returned to, the address behind a Match, is an address of the program and,
\* but for a start address, lies in the production of the opcode before it,
\* that production's Return being its last opcode.
C38_IpInRange ==
    /\ [](Compiled =>
             /\ ProductionBlocks
             /\ \A th \in Threads : ValidIp(th.ip))
    /\ [][IpStep]_vars

\* a thread has returned into a production, behind the Fork that is its second
\* opcode or a later one, and stands at a Match there; other productions follow
C38_Witness ==
    /\ pc = "dispatch"
    /\ runnable # <<>>
    /\ LET th == Last(runnable)
       IN /\ Nth(fragments, th.fragidx).value.type = "RuleNonTerm"
          /\ at(cg, th.ip).op = "Match"
          /\ th.ip \notin StartAddresses
          /\ StartOf(th.ip) < th.ip - 1
          /\ th.ip + 2 < Len(cg.opcodes)

-----------------------------------------------------------------------------
(* run from a start symbol that names no nonterminal *)

\* run is given any string of the grammar, or one that is not in it
InitStart ==
    /\ G \in Grammars
    /\ tokens \in TokenSeqs(G)
    /\ nt_start \in Interned(G)
    /\ min_match \in 0..MaxMinMatch
    /\ debug_level = 0
    /\ tidx_arg = 0
    /\ cg = CompiledGrammar_new
    /\ todo = <<>>
    /\ pc = "compile_grammar"
    /\ fragments = <<>>
    /\ tails = <<>>
    /\ runnable = <<>>
    /\ matchable = <<>>
    /\ freelist = <<>>
    /\ shared_stack = SharedStack_new
    /\ matched = <<>>
    /\ prev_validx = NIL
    /\ tokidx = 0
    /\ oracle_calls = <<>>
    /\ parked = {}
    /\ events = <<>>
    /\ prior = None
    /\ runs = 0
    /\ memory = None

SpecStart == InitStart /\ [][Next]_vars

\* run has been entered
Started == Compiled /\ pc # "run"
NothingCreated ==
    /\ fragments = <<>>
    /\ runnable = <<>>
    /\ matchable = <<>>
    /\ tails = <<>>
    /\ shared_stack = SharedStack_new
    /\ oracle_calls = <<>>

\* C39: run from a string that is not in the string table of the compiled
\* grammar aborts on the unwrap, before any thread or fragment is created; run
\* from a string of the table that names no nonterminal returns a ParsedTrees
\* with count() = 0 and never calls match_fn.
C39_UnknownStart ==
    Started =>
        /\ nt_start \notin Range(cg.strings) => (pc = "panic" /\ NothingCreated)
        /\ (nt_start \in Range(cg.strings) /\ nt_start \notin NontermNames(G)) =>
              /\ pc = "done"
              /\ count(parsed_trees) = 0
              /\ NothingCreated
        /\ (pc = "panic" \/ (pc = "done" /\ fragments = <<>>)) =>
              nt_start \notin NontermNames(G)

\* run from wtypent, the binding name of a component, on three tokens: it has
\* returned no tree
C39_Witness ==
    /\ G = GNamed
    /\ nt_start = "wtypent"
    /\ Len(tokens) = 3
    /\ pc = "done"
    /\ lookup_string(cg, nt_start) # None
    /\ count(parsed_trees) = 0

====
